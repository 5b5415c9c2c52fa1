-------------------------- MODULE RealtekWifiProofs --------------------------
(***************************************************************************)
(* Proofs about RealtekWifi for every number of loads, every number of     *)
(* sends, every size of the capability list and every modulus of the       *)
(* device index.                                                           *)
(***************************************************************************)
EXTENDS RealtekWifi, FiniteSets, FiniteSetTheorems, TLAPS

(* Stretches of handleTimer.                                               *)
Opening == {"alloc", "phy", "stop", "idle", "clear", "ring", "chan", "run", "send", "poll"}
Owning  == Opening \ {"alloc"}
Halted  == {"idle", "clear", "ring", "chan", "run"}
Sending == {"send", "poll"}

(* The type invariant in parts.                                            *)
BoolOK ==
    /\ dle \in BOOLEAN /\ hciEn \in BOOLEAN /\ dmaEn \in BOOLEAN /\ txhci \in BOOLEAN
    /\ stopAll \in BOOLEAN /\ stopCh12 \in BOOLEAN /\ timedOut \in BOOLEAN /\ stray \in BOOLEAN

InstOK ==
    /\ load \in 0..MaxLoads
    /\ life \in {"out", "started", "failed", "stopping", "detached", "stopped"}
    /\ held \subseteq Resources /\ timer \in {"off", "armed", "fired"}
    /\ step \in {"none", "wake", "power", "cpu", "clear_sts", "boot", "hci"} \cup Opening
    /\ sends \in 0..MaxSends

WalkOK ==
    /\ cap \in 0..MaxCap
    /\ DOMAIN seen \subseteq 1..MaxCap /\ seen \in [DOMAIN seen -> 0..MaxCap]

CpuOK == wcpu \in 0..Foreign /\ sts \in 0..Foreign /\ rdyBy \in 0..Foreign

ChipOK ==
    /\ base \in 0..MaxLoads /\ fetching \in 0..MaxLoads
    /\ hostIdx \in {0, 1} /\ hwIdx \in 0..IdxModulus - 1
    /\ engine \in {"idle", "fetch"}

HistOK == acked \subseteq 0..MaxLoads /\ taken \subseteq 0..MaxLoads

(* A handler that runs or may still run has what it dereferences; stop,    *)
(* which gives it back, is past the removal of the timer by then. A        *)
(* handler that runs has used its timer up, and stop has called it off.    *)
LifeInv ==
    /\ step # "none" => timer = "off"
    /\ life = "stopping" => timer # "armed"
    /\ timer # "off" \/ step # "none" =>
          /\ life \in {"started", "failed", "stopping"}
          /\ {"provider", "bar", "dev"} \subseteq held
    /\ step \in Owning => RingMem \subseteq held

(* The CPU stands still between its halt and its start, so that the status *)
(* cleared in between is this load's from then on.                         *)
CpuInv ==
    /\ step \in {"clear_sts", "boot"} => wcpu = 0
    /\ step = "boot" => sts = 0
    /\ step \in {"hci"} \cup Opening => wcpu = load /\ sts \in {0, load}
    /\ rdyBy \in {0, load}

(* The channel is halted from step 1 on, opened by step 8.                 *)
ChannelInv ==
    /\ step \in Opening => dmaEn
    /\ step \in Halted => stopAll
    /\ step \in {"chan", "run"} \cup Sending => base = load
    /\ step \in {"run"} \cup Sending => ~stopCh12
    /\ step \in Sending => txhci /\ ~stopAll

(* Without a timeout the two halves of the index agree, but for the first  *)
(* send of a load, during which the handler waits and the engine reads     *)
(* this load's memory.                                                     *)
IndexInv ==
    ~timedOut =>
        /\ ~stray /\ acked \subseteq taken
        /\ \/ hostIdx = hwIdx /\ engine = "idle"
           \/ /\ hostIdx = 1 /\ hwIdx = 0 /\ step = "poll"
              /\ engine = "fetch" => fetching = load
        /\ step \in {"ring", "chan", "run"} => hwIdx = 0
        /\ step \in Sending /\ hwIdx = 1 => load \in taken

(* The walk remembers nothing outside itself. Behind a capability it has   *)
(* passed lies another such, or the one it is at.                          *)
WalkInv ==
    /\ step # "wake" => cap = 0 /\ seen = Unread
    /\ \A c \in DOMAIN seen : seen[c] \in DOMAIN seen \cup {cap}

IInv == TypeOK /\ LifeInv /\ WalkInv /\ CpuInv /\ ChannelInv /\ IndexInv

-----------------------------------------------------------------------------

(* What Order says, without its indices.                                   *)
LEMMA OrderSets ==
    /\ {Order[i] : i \in 1..7} = {"provider", "bar", "dev", "workloop", "intr", "timer", "netif"}
    /\ \A k \in 1..7 : {Order[i] : i \in 1..k - 1} \subseteq Resources
    /\ {"provider", "bar", "dev"} \subseteq {Order[i] : i \in 1..6}
<1> DEFINE Seven == {"provider", "bar", "dev", "workloop", "intr", "timer", "netif"}
<1>1. /\ Order[1] = "provider" /\ Order[2] = "bar" /\ Order[3] = "dev" /\ Order[4] = "workloop"
      /\ Order[5] = "intr" /\ Order[6] = "timer" /\ Order[7] = "netif"
  BY DEF Order
<1>2. \A i \in 1..7 : i = 1 \/ i = 2 \/ i = 3 \/ i = 4 \/ i = 5 \/ i = 6 \/ i = 7
  OBVIOUS
<1> HIDE DEF Order
<1>3. {Order[i] : i \in 1..7} = Seven
  BY <1>1, <1>2
<1>4. \A k \in 1..7 : {Order[i] : i \in 1..k - 1} \subseteq {Order[i] : i \in 1..7}
  OBVIOUS
<1>5. {"provider", "bar", "dev"} \subseteq {Order[i] : i \in 1..6}
  BY <1>1
<1>6. QED
  BY <1>3, <1>4, <1>5 DEF Resources

LEMMA TypeParts == TypeOK <=> InstOK /\ WalkOK /\ CpuOK /\ BoolOK /\ ChipOK /\ HistOK
BY Zenon DEF TypeOK, InstOK, WalkOK, CpuOK, BoolOK, ChipOK, HistOK, Opening

LEMMA InitInv == Init => IInv
<1> SUFFICES ASSUME Init PROVE IInv
  OBVIOUS
<1>1. InstOK /\ WalkOK /\ CpuOK /\ ChipOK /\ HistOK
  BY BoundAssumption DEF Init, InstOK, WalkOK, Unread, CpuOK, ChipOK, HistOK, Foreign
<1>2. BoolOK
  BY Zenon DEF Init, BoolOK
<1>3. LifeInv /\ WalkInv /\ CpuInv /\ ChannelInv /\ IndexInv
  BY DEF Init, LifeInv, WalkInv, Unread, CpuInv, ChannelInv, IndexInv, Opening, Owning, Halted, Sending
<1>4. QED
  BY <1>1, <1>2, <1>3, TypeParts DEF IInv

(* The steps, sorted by the parts of the state they move.                  *)
LEMMA StepKinds ==
  ASSUME [Next]_vars
  PROVE  \/ Start \/ (\E k \in 1..7 : StartFails(k))
         \/ StopBegin \/ RemoveSources \/ StopRelease \/ TimerExpires \/ HandlerEnter
         \/ WalkOn \/ WalkEnds \/ PowerOn \/ CpuHalt \/ CpuClearStatus \/ CpuStart \/ HciFuncEn
         \/ AllocRing \/ AllocFails \/ HciToggle \/ StopDma \/ PollIdle \/ ClearIdx
         \/ RingSetup \/ OpenChannel \/ StartDma \/ Doorbell \/ SendOk \/ SendTimeout
         \/ DownloadFails \/ DownloadDone \/ EngineLatch \/ EngineFetch \/ WcpuReady
         \/ UNCHANGED vars
BY Zenon DEF Next, Stop, Handler

LEMMA LifeStep ==
  ASSUME TypeOK, LifeInv, [Next]_vars
  PROVE  LifeInv'
<1> USE DEF LifeInv, Owning, Opening, Go
<1>1. CASE Start
  BY <1>1, OrderSets DEF Start
<1>2. CASE \E k \in 1..7 : StartFails(k)
  <2>1. PICK k \in 1..7 : StartFails(k)
    BY <1>2
  <2>2. step' = "none" /\ life' = "failed" /\ held' = {Order[i] : i \in 1..k - 1}
    BY <2>1 DEF StartFails
  <2>3. timer' # "off" => k = 7
    BY <2>1 DEF StartFails
  <2>4. QED
    BY <2>2, <2>3, OrderSets
<1>3. CASE StopBegin \/ RemoveSources \/ StopRelease \/ TimerExpires \/ HandlerEnter
  BY <1>3 DEF StopBegin, RemoveSources, StopRelease, TimerExpires, HandlerEnter, EnterWalk
<1>4. CASE WalkOn \/ WalkEnds \/ PowerOn \/ CpuHalt \/ CpuClearStatus \/ CpuStart \/ HciFuncEn
  BY <1>4 DEF WalkOn, WalkEnds, PowerOn, CpuHalt, CpuClearStatus, CpuStart, HciFuncEn, NotCpu, Rest, instVars
<1>5. CASE AllocRing \/ AllocFails
  BY <1>5 DEF AllocRing, AllocFails, Rest
<1>6. CASE HciToggle \/ StopDma \/ PollIdle \/ ClearIdx \/ RingSetup \/ OpenChannel \/ StartDma
  BY <1>6 DEF HciToggle, StopDma, PollIdle, ClearIdx, RingSetup, OpenChannel, StartDma, Rest
<1>7. CASE Doorbell \/ SendOk \/ SendTimeout \/ DownloadFails \/ DownloadDone
  BY <1>7 DEF Doorbell, SendOk, SendTimeout, DownloadFails, DownloadDone, Rest, instVars
<1>8. CASE EngineLatch \/ EngineFetch \/ WcpuReady \/ UNCHANGED vars
  BY <1>8 DEF EngineLatch, EngineFetch, WcpuReady, NotCpu, instVars, vars
<1>9. QED
  BY <1>1, <1>2, <1>3, <1>4, <1>5, <1>6, <1>7, <1>8, StepKinds

(* A new load begins with no handler running, by LifeInv.                  *)
LEMMA CpuStep ==
  ASSUME TypeOK, LifeInv, CpuInv, [Next]_vars
  PROVE  CpuInv'
<1> USE DEF CpuInv, Opening, Go, cpuVars
<1>1. CASE Start \/ (\E k \in 1..7 : StartFails(k))
  BY <1>1 DEF Start, StartFails, LifeInv
<1>2. CASE StopBegin \/ RemoveSources \/ StopRelease \/ TimerExpires \/ HandlerEnter
  BY <1>2 DEF StopBegin, RemoveSources, StopRelease, TimerExpires, HandlerEnter, EnterWalk
<1>3. CASE WalkOn \/ WalkEnds \/ PowerOn \/ CpuHalt \/ CpuClearStatus \/ CpuStart \/ HciFuncEn
  BY <1>3 DEF WalkOn, WalkEnds, PowerOn, CpuHalt, CpuClearStatus, CpuStart, HciFuncEn, NotCpu, Rest, instVars
<1>4. CASE AllocRing \/ AllocFails \/ HciToggle \/ StopDma \/ PollIdle \/ ClearIdx
             \/ RingSetup \/ OpenChannel \/ StartDma
  BY <1>4 DEF AllocRing, AllocFails, HciToggle, StopDma, PollIdle, ClearIdx,
              RingSetup, OpenChannel, StartDma, Rest
<1>5. CASE Doorbell \/ SendOk \/ SendTimeout \/ DownloadFails \/ DownloadDone
  BY <1>5 DEF Doorbell, SendOk, SendTimeout, DownloadFails, DownloadDone, Rest, instVars
<1>6. CASE EngineLatch \/ EngineFetch \/ WcpuReady \/ UNCHANGED vars
  BY <1>6 DEF EngineLatch, EngineFetch, WcpuReady, NotCpu, instVars, vars
<1>7. QED
  BY <1>1, <1>2, <1>3, <1>4, <1>5, <1>6, StepKinds

LEMMA ChannelStep ==
  ASSUME TypeOK, LifeInv, ChannelInv, [Next]_vars
  PROVE  ChannelInv'
<1> USE DEF ChannelInv, Opening, Halted, Sending, Go, regVars
<1>1. CASE Start \/ (\E k \in 1..7 : StartFails(k))
  BY <1>1 DEF Start, StartFails, LifeInv
<1>2. CASE StopBegin \/ RemoveSources \/ StopRelease \/ TimerExpires \/ HandlerEnter
  BY <1>2 DEF StopBegin, RemoveSources, StopRelease, TimerExpires, HandlerEnter, EnterWalk
<1>3. CASE WalkOn \/ WalkEnds \/ PowerOn \/ CpuHalt \/ CpuClearStatus \/ CpuStart \/ HciFuncEn
  BY <1>3 DEF WalkOn, WalkEnds, PowerOn, CpuHalt, CpuClearStatus, CpuStart, HciFuncEn, NotCpu, Rest, instVars
<1>4. CASE AllocRing \/ AllocFails \/ HciToggle \/ StopDma \/ PollIdle \/ ClearIdx
  BY <1>4 DEF AllocRing, AllocFails, HciToggle, StopDma, PollIdle, ClearIdx, Rest
<1>5. CASE RingSetup \/ OpenChannel \/ StartDma
  BY <1>5 DEF RingSetup, OpenChannel, StartDma, Rest
<1>6. CASE Doorbell \/ SendOk \/ SendTimeout \/ DownloadFails \/ DownloadDone
  BY <1>6 DEF Doorbell, SendOk, SendTimeout, DownloadFails, DownloadDone, Rest, instVars
<1>7. CASE EngineLatch \/ EngineFetch \/ WcpuReady \/ UNCHANGED vars
  BY <1>7 DEF EngineLatch, EngineFetch, WcpuReady, NotCpu, instVars, vars
<1>8. QED
  BY <1>1, <1>2, <1>3, <1>4, <1>5, <1>6, <1>7, StepKinds

LEMMA IndexStep ==
  ASSUME TypeOK, LifeInv, ChannelInv, IndexInv, [Next]_vars
  PROVE  IndexInv'
<1> USE DEF IndexInv, Sending, Go, idxVars, engVars, histVars
<1>1. CASE Start \/ (\E k \in 1..7 : StartFails(k))
  BY <1>1 DEF Start, StartFails, LifeInv
<1>2. CASE StopBegin \/ RemoveSources \/ StopRelease \/ TimerExpires \/ HandlerEnter
  BY <1>2 DEF StopBegin, RemoveSources, StopRelease, TimerExpires, HandlerEnter, EnterWalk
<1>3. CASE WalkOn \/ WalkEnds \/ PowerOn \/ CpuHalt \/ CpuClearStatus \/ CpuStart \/ HciFuncEn
  BY <1>3 DEF WalkOn, WalkEnds, PowerOn, CpuHalt, CpuClearStatus, CpuStart, HciFuncEn, NotCpu, Rest, instVars
<1>4. CASE AllocRing \/ AllocFails \/ HciToggle \/ StopDma \/ PollIdle
  BY <1>4 DEF AllocRing, AllocFails, HciToggle, StopDma, PollIdle, Rest
<1>5. CASE ClearIdx \/ RingSetup \/ OpenChannel \/ StartDma
  BY <1>5 DEF ClearIdx, RingSetup, OpenChannel, StartDma, Rest
<1>6. CASE Doorbell
  BY <1>6 DEF Doorbell, TypeOK
<1>7. CASE SendOk \/ SendTimeout
  BY <1>7 DEF SendOk, SendTimeout, instVars
<1>8. CASE DownloadFails \/ DownloadDone
  BY <1>8 DEF DownloadFails, DownloadDone, Rest, instVars
<1>9. CASE EngineLatch
  BY <1>9 DEF EngineLatch, ChannelInv, instVars
<1>10. CASE EngineFetch
  <2>1. SUFFICES ASSUME ~timedOut PROVE IndexInv'
    BY <1>10 DEF EngineFetch
  <2>2. hostIdx = 1 /\ hwIdx = 0 /\ step = "poll" /\ fetching = load
    BY <1>10, <2>1 DEF EngineFetch
  <2>3. Live(fetching)
    BY <2>2 DEF LifeInv, Owning, Opening, Live
  <2>4. hwIdx' = 1
    BY <1>10, <2>2, BoundAssumption DEF EngineFetch, Wrap
  <2>5. QED
    BY <1>10, <2>1, <2>2, <2>3, <2>4 DEF EngineFetch, instVars
<1>11. CASE WcpuReady \/ UNCHANGED vars
  BY <1>11 DEF WcpuReady, NotCpu, instVars, vars
<1>12. QED
  BY <1>1, <1>2, <1>3, <1>4, <1>5, <1>6, <1>7, <1>8, <1>9, <1>10, <1>11, StepKinds

LEMMA BoolStep ==
  ASSUME BoolOK, [Next]_vars
  PROVE  BoolOK'
<1> USE DEF BoolOK, regVars, histVars
<1>1. CASE Start \/ (\E k \in 1..7 : StartFails(k)) \/ StopBegin \/ RemoveSources
             \/ StopRelease \/ TimerExpires \/ HandlerEnter
  BY <1>1, Zenon DEF Start, StartFails, StopBegin, RemoveSources, StopRelease,
              TimerExpires, HandlerEnter
<1>2. CASE WalkOn \/ WalkEnds \/ PowerOn \/ CpuHalt \/ CpuClearStatus \/ CpuStart \/ HciFuncEn
  BY <1>2, Zenon DEF WalkOn, WalkEnds, PowerOn, CpuHalt, DmacPreInit, CpuClearStatus, CpuStart, HciFuncEn,
              NotCpu, Rest
<1>3. CASE AllocRing \/ AllocFails \/ HciToggle \/ StopDma \/ PollIdle \/ ClearIdx
             \/ RingSetup \/ OpenChannel \/ StartDma
  BY <1>3, Zenon DEF AllocRing, AllocFails, HciToggle, StopDma, PollIdle, ClearIdx,
              RingSetup, OpenChannel, StartDma, Rest
<1>4. CASE Doorbell \/ SendOk \/ SendTimeout \/ DownloadFails \/ DownloadDone
  BY <1>4, Zenon DEF Doorbell, SendOk, SendTimeout, DownloadFails, DownloadDone, Rest
<1>5. CASE EngineLatch \/ WcpuReady \/ UNCHANGED vars
  BY <1>5, Zenon DEF EngineLatch, WcpuReady, NotCpu, vars
<1>6. CASE EngineFetch
  BY <1>6, Zenon DEF EngineFetch
<1>7. QED
  BY <1>1, <1>2, <1>3, <1>4, <1>5, <1>6, StepKinds, Zenon

LEMMA InstStep ==
  ASSUME InstOK, [Next]_vars
  PROVE  InstOK'
<1> USE BoundAssumption DEF InstOK, Opening, Go, instVars
<1>1. CASE Start \/ (\E k \in 1..7 : StartFails(k))
  BY <1>1, OrderSets DEF Start, StartFails, Resources
<1>2. CASE StopBegin \/ RemoveSources \/ StopRelease \/ TimerExpires \/ HandlerEnter
  BY <1>2 DEF StopBegin, RemoveSources, StopRelease, TimerExpires, HandlerEnter, EnterWalk
<1>3. CASE WalkOn \/ WalkEnds \/ PowerOn \/ CpuHalt \/ CpuClearStatus \/ CpuStart \/ HciFuncEn
  BY <1>3 DEF WalkOn, WalkEnds, PowerOn, CpuHalt, CpuClearStatus, CpuStart, HciFuncEn, NotCpu, Rest
<1>4. CASE AllocRing \/ AllocFails \/ HciToggle \/ StopDma \/ PollIdle \/ ClearIdx
  BY <1>4 DEF AllocRing, AllocFails, HciToggle, StopDma, PollIdle, ClearIdx, Rest, Resources
<1>5. CASE RingSetup \/ OpenChannel \/ StartDma
  BY <1>5 DEF RingSetup, OpenChannel, StartDma, Rest
<1>6. CASE Doorbell \/ SendOk \/ SendTimeout \/ DownloadFails \/ DownloadDone
  BY <1>6 DEF Doorbell, SendOk, SendTimeout, DownloadFails, DownloadDone, Rest
<1>7. CASE EngineLatch \/ EngineFetch
  BY <1>7 DEF EngineLatch, EngineFetch
<1>8. CASE WcpuReady \/ UNCHANGED vars
  BY <1>8 DEF WcpuReady, NotCpu, vars
<1>9. QED
  BY <1>1, <1>2, <1>3, <1>4, <1>5, <1>6, <1>7, <1>8, StepKinds

LEMMA WalkStep ==
  ASSUME InstOK, WalkOK, LifeInv, WalkInv, [Next]_vars
  PROVE  WalkOK' /\ WalkInv'
<1> USE BoundAssumption DEF WalkOK, WalkInv, Go, walk
<1>1. CASE Start \/ (\E k \in 1..7 : StartFails(k))
  BY <1>1 DEF Start, StartFails
<1>2. CASE StopBegin \/ RemoveSources \/ StopRelease \/ TimerExpires
  BY <1>2 DEF StopBegin, RemoveSources, StopRelease, TimerExpires
<1>3. CASE HandlerEnter
  BY <1>3 DEF HandlerEnter, EnterWalk, Unread
<1>4. CASE WalkOn
  <2>1. step = "wake" /\ step' = "wake" /\ cap \in 1..MaxCap /\ cap' \in 0..MaxCap
    BY <1>4 DEF WalkOn
  <2>2. seen' = [c \in DOMAIN seen \cup {cap} |-> IF c = cap THEN cap' ELSE seen[c]]
    BY <1>4 DEF WalkOn
  <2>3. DOMAIN seen' = DOMAIN seen \cup {cap}
    BY <2>2
  <2>4. seen' \in [DOMAIN seen' -> 0..MaxCap]
    BY <2>1, <2>2, <2>3
  <2>5. \A c \in DOMAIN seen' : seen'[c] \in DOMAIN seen' \cup {cap'}
    BY <2>2, <2>3
  <2>6. QED
    BY <2>1, <2>3, <2>4, <2>5
<1>5. CASE WalkEnds
  BY <1>5 DEF WalkEnds, Unread
<1>6. CASE PowerOn \/ CpuHalt \/ CpuClearStatus \/ CpuStart \/ HciFuncEn
  BY <1>6 DEF PowerOn, CpuHalt, CpuClearStatus, CpuStart, HciFuncEn, NotCpu, Rest
<1>7. CASE AllocRing \/ AllocFails \/ HciToggle \/ StopDma \/ PollIdle \/ ClearIdx
  BY <1>7 DEF AllocRing, AllocFails, HciToggle, StopDma, PollIdle, ClearIdx, Rest
<1>8. CASE RingSetup \/ OpenChannel \/ StartDma
  BY <1>8 DEF RingSetup, OpenChannel, StartDma, Rest
<1>9. CASE Doorbell \/ SendOk \/ SendTimeout \/ DownloadFails \/ DownloadDone
  BY <1>9 DEF Doorbell, SendOk, SendTimeout, DownloadFails, DownloadDone, Rest
<1>10. CASE EngineLatch \/ EngineFetch \/ WcpuReady \/ UNCHANGED vars
  BY <1>10 DEF EngineLatch, EngineFetch, WcpuReady, NotCpu, vars
<1>11. QED
  BY <1>1, <1>2, <1>3, <1>4, <1>5, <1>6, <1>7, <1>8, <1>9, <1>10, StepKinds

LEMMA CpuTypes ==
  ASSUME InstOK, CpuOK, [Next]_vars
  PROVE  CpuOK'
<1> USE BoundAssumption DEF InstOK, CpuOK, Foreign, cpuVars
<1>1. CASE Start \/ (\E k \in 1..7 : StartFails(k))
  BY <1>1 DEF Start, StartFails
<1>2. CASE StopBegin \/ RemoveSources \/ StopRelease \/ TimerExpires \/ HandlerEnter
  BY <1>2 DEF StopBegin, RemoveSources, StopRelease, TimerExpires, HandlerEnter, EnterWalk
<1>3. CASE WalkOn \/ WalkEnds \/ PowerOn \/ CpuHalt \/ CpuClearStatus \/ CpuStart \/ HciFuncEn
  BY <1>3 DEF WalkOn, WalkEnds, PowerOn, CpuHalt, CpuClearStatus, CpuStart, HciFuncEn, NotCpu, Rest
<1>4. CASE AllocRing \/ AllocFails \/ HciToggle \/ StopDma \/ PollIdle \/ ClearIdx
  BY <1>4 DEF AllocRing, AllocFails, HciToggle, StopDma, PollIdle, ClearIdx, Rest
<1>5. CASE RingSetup \/ OpenChannel \/ StartDma
  BY <1>5 DEF RingSetup, OpenChannel, StartDma, Rest
<1>6. CASE Doorbell \/ SendOk \/ SendTimeout \/ DownloadFails \/ DownloadDone
  BY <1>6 DEF Doorbell, SendOk, SendTimeout, DownloadFails, DownloadDone, Rest
<1>7. CASE EngineLatch \/ EngineFetch
  BY <1>7 DEF EngineLatch, EngineFetch
<1>8. CASE WcpuReady \/ UNCHANGED vars
  BY <1>8 DEF WcpuReady, NotCpu, vars
<1>9. QED
  BY <1>1, <1>2, <1>3, <1>4, <1>5, <1>6, <1>7, <1>8, StepKinds

LEMMA ChipStep ==
  ASSUME InstOK, ChipOK, [Next]_vars
  PROVE  ChipOK'
<1> USE BoundAssumption DEF InstOK, ChipOK, regVars, idxVars, engVars
<1>1. CASE Start \/ (\E k \in 1..7 : StartFails(k))
  BY <1>1 DEF Start, StartFails
<1>2. CASE StopBegin \/ RemoveSources \/ StopRelease \/ TimerExpires \/ HandlerEnter
  BY <1>2 DEF StopBegin, RemoveSources, StopRelease, TimerExpires, HandlerEnter, EnterWalk
<1>3. CASE WalkOn \/ WalkEnds \/ PowerOn \/ CpuHalt \/ CpuClearStatus \/ CpuStart \/ HciFuncEn
  BY <1>3 DEF WalkOn, WalkEnds, PowerOn, CpuHalt, CpuClearStatus, CpuStart, HciFuncEn, NotCpu, Rest
<1>4. CASE AllocRing \/ AllocFails \/ HciToggle \/ StopDma \/ PollIdle \/ ClearIdx
  BY <1>4 DEF AllocRing, AllocFails, HciToggle, StopDma, PollIdle, ClearIdx, Rest
<1>5. CASE RingSetup \/ OpenChannel \/ StartDma
  BY <1>5 DEF RingSetup, OpenChannel, StartDma, Rest
<1>6. CASE Doorbell \/ SendOk \/ SendTimeout \/ DownloadFails \/ DownloadDone
  BY <1>6 DEF Doorbell, SendOk, SendTimeout, DownloadFails, DownloadDone, Rest
<1>7. CASE EngineLatch \/ EngineFetch
  BY <1>7 DEF EngineLatch, EngineFetch, Wrap
<1>8. CASE WcpuReady \/ UNCHANGED vars
  BY <1>8 DEF WcpuReady, NotCpu, vars
<1>9. QED
  BY <1>1, <1>2, <1>3, <1>4, <1>5, <1>6, <1>7, <1>8, StepKinds

LEMMA HistStep ==
  ASSUME InstOK, ChipOK, HistOK, [Next]_vars
  PROVE  HistOK'
<1> USE BoundAssumption DEF InstOK, ChipOK, HistOK, histVars
<1>1. CASE Start \/ (\E k \in 1..7 : StartFails(k))
  BY <1>1 DEF Start, StartFails
<1>2. CASE StopBegin \/ RemoveSources \/ StopRelease \/ TimerExpires \/ HandlerEnter
  BY <1>2 DEF StopBegin, RemoveSources, StopRelease, TimerExpires, HandlerEnter, EnterWalk
<1>3. CASE WalkOn \/ WalkEnds \/ PowerOn \/ CpuHalt \/ CpuClearStatus \/ CpuStart \/ HciFuncEn
  BY <1>3 DEF WalkOn, WalkEnds, PowerOn, CpuHalt, CpuClearStatus, CpuStart, HciFuncEn, NotCpu, Rest
<1>4. CASE AllocRing \/ AllocFails \/ HciToggle \/ StopDma \/ PollIdle \/ ClearIdx
  BY <1>4 DEF AllocRing, AllocFails, HciToggle, StopDma, PollIdle, ClearIdx, Rest
<1>5. CASE RingSetup \/ OpenChannel \/ StartDma
  BY <1>5 DEF RingSetup, OpenChannel, StartDma, Rest
<1>6. CASE Doorbell \/ SendOk \/ SendTimeout \/ DownloadFails \/ DownloadDone
  BY <1>6 DEF Doorbell, SendOk, SendTimeout, DownloadFails, DownloadDone, Rest
<1>7. CASE EngineLatch \/ EngineFetch
  BY <1>7 DEF EngineLatch, EngineFetch
<1>8. CASE WcpuReady \/ UNCHANGED vars
  BY <1>8 DEF WcpuReady, NotCpu, vars
<1>9. QED
  BY <1>1, <1>2, <1>3, <1>4, <1>5, <1>6, <1>7, <1>8, StepKinds

LEMMA StepInv == IInv /\ [Next]_vars => IInv'
<1> SUFFICES ASSUME IInv, [Next]_vars PROVE IInv'
  OBVIOUS
<1>1. TypeOK'
  <2>1. InstOK /\ WalkOK /\ LifeInv /\ WalkInv /\ CpuOK /\ BoolOK /\ ChipOK /\ HistOK
    BY TypeParts DEF IInv
  <2>2. InstOK' /\ WalkOK' /\ CpuOK' /\ BoolOK' /\ ChipOK' /\ HistOK'
    BY <2>1, InstStep, WalkStep, CpuTypes, BoolStep, ChipStep, HistStep
  <2>3. QED
    BY <2>2, Zenon DEF TypeOK, InstOK, WalkOK, CpuOK, BoolOK, ChipOK, HistOK, Opening
<1>2. LifeInv' /\ WalkInv' /\ CpuInv' /\ ChannelInv' /\ IndexInv'
  BY LifeStep, WalkStep, TypeParts, CpuStep, ChannelStep, IndexStep DEF IInv
<1>3. QED
  BY <1>1, <1>2 DEF IInv

LEMMA Inductive == Spec => []IInv
BY InitInv, StepInv, PTL DEF Spec

(* Who moves the ring address, and who the host's index.                   *)
LEMMA Movers ==
  ASSUME [Next]_vars
  PROVE  /\ base' # base => step = "ring"
         /\ hostIdx' # hostIdx /\ hostIdx' = 1 => step = "send"
<1> USE DEF Go, regVars, idxVars
<1>1. CASE Start \/ (\E k \in 1..7 : StartFails(k))
  BY <1>1 DEF Start, StartFails
<1>2. CASE StopBegin \/ RemoveSources \/ StopRelease \/ TimerExpires \/ HandlerEnter
  BY <1>2 DEF StopBegin, RemoveSources, StopRelease, TimerExpires, HandlerEnter, EnterWalk
<1>3. CASE WalkOn \/ WalkEnds \/ PowerOn \/ CpuHalt \/ CpuClearStatus \/ CpuStart \/ HciFuncEn
  BY <1>3 DEF WalkOn, WalkEnds, PowerOn, CpuHalt, CpuClearStatus, CpuStart, HciFuncEn, NotCpu, Rest
<1>4. CASE AllocRing \/ AllocFails \/ HciToggle \/ StopDma \/ PollIdle \/ ClearIdx
  BY <1>4 DEF AllocRing, AllocFails, HciToggle, StopDma, PollIdle, ClearIdx, Rest
<1>5. CASE RingSetup \/ OpenChannel \/ StartDma
  BY <1>5 DEF RingSetup, OpenChannel, StartDma, Rest
<1>6. CASE Doorbell \/ SendOk \/ SendTimeout \/ DownloadFails \/ DownloadDone
  BY <1>6 DEF Doorbell, SendOk, SendTimeout, DownloadFails, DownloadDone, Rest
<1>7. CASE EngineLatch \/ EngineFetch
  BY <1>7 DEF EngineLatch, EngineFetch
<1>8. CASE WcpuReady \/ UNCHANGED vars
  BY <1>8 DEF WcpuReady, NotCpu, vars
<1>9. QED
  BY <1>1, <1>2, <1>3, <1>4, <1>5, <1>6, <1>7, <1>8, StepKinds

-----------------------------------------------------------------------------

(* The kext's and the chip's variables keep their types.                   *)
THEOREM TypeCorrect == Spec => []TypeOK
<1>1. IInv => TypeOK
  BY DEF IInv
<1>2. QED
  BY <1>1, Inductive, PTL

(* The handler never meets released memory or a freed device, wherever     *)
(* stop falls and wherever start fails (RealtekWifi.cpp:96, 115-118, 206). *)
THEOREM HandlerSafe == Spec => []HandlerOnLiveInstance
<1>1. IInv => HandlerOnLiveInstance
  BY DEF IInv, LifeInv, Owning, Opening, HandlerOnLiveInstance, NoHandlerAfterStop,
         HandlerHasDevice
<1>2. QED
  BY <1>1, Inductive, PTL

(* FW_RDY comes from a CPU that this load has started                      *)
(* (RealtekWifi.cpp:237-264, fw.c:152-157).                                *)
THEOREM ReadyOwn == Spec => []ReadyIsOwn
<1>1. IInv => ReadyIsOwn
  BY DEF IInv, CpuInv, ReadyIsOwn
<1>2. QED
  BY <1>1, Inductive, PTL

(* Without a timeout the engine reads live memory only, although stop does *)
(* not halt it, and a send that returns 0 was served from the memory of    *)
(* its own load (RealtekWifi.cpp:127-131, 381-387).                        *)
THEOREM MemoryIsOwn == Spec => []OwnMemoryOnly
<1>1. IInv => OwnMemoryOnly
  BY DEF IInv, IndexInv, OwnMemoryOnly, FetchesLiveMemory, SuccessIsOwn
<1>2. QED
  BY <1>1, Inductive, PTL

(* Ring address and indices change on a halted channel only; the doorbell  *)
(* is rung on one that runs over this load's ring                          *)
(* (RealtekWifi.cpp:364-439).                                              *)
THEOREM ProgrammedInOrder == Spec => ProgrammedThenRun
<1> DEFINE Ordered ==
      /\ base' # base \/ (step = "clear" /\ step' # step) => ~Running
      /\ hostIdx' # hostIdx /\ hostIdx' = 1 => Running /\ base = load /\ Live(base)
<1>1. IInv /\ [Next]_vars => [Ordered]_vars
  <2> SUFFICES ASSUME IInv, [Next]_vars PROVE Ordered \/ UNCHANGED vars
    OBVIOUS
  <2>1. step \in Halted => ~Running
    BY DEF IInv, ChannelInv, Running
  <2>2. step = "send" => Running /\ base = load /\ Live(base)
    BY DEF IInv, ChannelInv, LifeInv, Running, Live, Sending, Opening, Owning
  <2>3. QED
    BY <2>1, <2>2, Movers DEF Halted
<1>2. QED
  BY <1>1, Inductive, PTL DEF Spec, ProgrammedThenRun

-----------------------------------------------------------------------------

(* Each step of kext, work loop and chip is a step of LoadCycle or leaves  *)
(* it alone.                                                               *)
LEMMA StepCycle ==
  ASSUME IInv, [Next]_vars
  PROVE  [Cycle!Next]_(Cycle!vars)
<1> USE DEF Cycle!vars, Cycle!Next, Go
<1>1. CASE Start
  <2>1. Cycle!Enter
    BY <1>1, OrderSets DEF Start, Cycle!Enter, IInv, LifeInv
  <2>2. QED
    BY <2>1
<1>2. ASSUME NEW k \in 1..7, StartFails(k) PROVE Cycle!Enter
  <2>1. /\ life \in {"out", "stopped"} /\ load < MaxLoads /\ load' = load + 1
        /\ life' = "failed" /\ rdyBy' = 0 /\ step' = step
        /\ timer' = IF k = 7 THEN "armed" ELSE "off"
        /\ held' = {Order[i] : i \in 1..k - 1}
    BY <1>2 DEF StartFails
  <2>2. step = "none"
    BY <2>1 DEF IInv, LifeInv
  <2>3. CASE k = 7
    BY <2>1, <2>2, <2>3, OrderSets DEF Cycle!Enter
  <2>4. CASE k # 7
    BY <2>1, <2>2, <2>4 DEF Cycle!Enter
  <2>5. QED
    BY <2>3, <2>4
<1>3. CASE StopBegin
  <2>1. Cycle!Leave
    BY <1>3 DEF StopBegin, Cycle!Leave, cpuVars
  <2>2. QED
    BY <2>1
<1>4. CASE RemoveSources
  <2>1. Cycle!Detach
    BY <1>4 DEF RemoveSources, Cycle!Detach, cpuVars
  <2>2. QED
    BY <2>1
<1>5. CASE StopRelease
  <2>1. Cycle!TakeApart
    BY <1>5 DEF StopRelease, Cycle!TakeApart, cpuVars
  <2>2. QED
    BY <2>1
<1>6. CASE TimerExpires
  BY <1>6 DEF TimerExpires, cpuVars
<1>7. CASE HandlerEnter
  <2>1. Cycle!Work
    BY <1>7 DEF HandlerEnter, EnterWalk, Cycle!Work, cpuVars, IInv, LifeInv
  <2>2. QED
    BY <2>1
<1>8. ASSUME PowerOn \/ AllocFails \/ DownloadFails, step' = "none"
      PROVE  Cycle!WorkEnds
  BY <1>8 DEF PowerOn, AllocFails, DownloadFails, Rest, Cycle!WorkEnds, cpuVars, IInv, LifeInv
<1>9. CASE DownloadDone
  <2>1. Cycle!WorkEnds
    BY <1>9 DEF DownloadDone, instVars, Cycle!WorkEnds, IInv, LifeInv
  <2>2. QED
    BY <2>1
<1>10. CASE \/ WalkOn \/ WalkEnds \/ PowerOn \/ CpuHalt \/ CpuClearStatus \/ CpuStart \/ HciFuncEn
  BY <1>8, <1>10
  DEF WalkOn, WalkEnds, PowerOn, CpuHalt, CpuClearStatus, CpuStart, HciFuncEn, NotCpu, Rest, instVars, cpuVars
<1>11. CASE AllocRing \/ AllocFails \/ DownloadFails
  BY <1>8, <1>11 DEF AllocRing, AllocFails, DownloadFails, Rest, RingMem, cpuVars
<1>12. CASE HciToggle \/ StopDma \/ PollIdle \/ ClearIdx \/ RingSetup \/ OpenChannel \/ StartDma
  BY <1>12
  DEF HciToggle, StopDma, PollIdle, ClearIdx, RingSetup, OpenChannel, StartDma, Rest, cpuVars
<1>13. CASE Doorbell \/ SendOk \/ SendTimeout
  BY <1>13 DEF Doorbell, SendOk, SendTimeout, instVars, cpuVars
<1>14. CASE EngineLatch \/ EngineFetch \/ WcpuReady \/ UNCHANGED vars
  BY <1>14 DEF EngineLatch, EngineFetch, WcpuReady, NotCpu, instVars, cpuVars, vars
<1>15. QED
  BY <1>1, <1>2, <1>3, <1>4, <1>5, <1>6, <1>7, <1>9, <1>10, <1>11, <1>12, <1>13, <1>14, StepKinds

(* Every life of the kext is a sequence of loads as LoadCycle describes    *)
(* them: one run of the handler a load at most, on a whole instance, and   *)
(* none beside or after the removal of the timer (RealtekWifi.cpp:96-134). *)
THEOREM LoadsImplementCycle == Spec => ImplementsLoadCycle
<1>1. Init => Cycle!Init
  BY DEF Init, Cycle!Init
<1>2. QED
  BY <1>1, StepCycle, Inductive, PTL DEF Spec, ImplementsLoadCycle, Cycle!Spec

-----------------------------------------------------------------------------

(* dmac_pre_init clears the functions the power on enabled, and nothing    *)
(* sets them again; the toggle leaves FUNC_EN off.                         *)
BlocksInv ==
    /\ step \in {"clear_sts", "boot", "hci"} \cup Opening => ~dle
    /\ step \in {"stop"} \cup Halted \cup Sending => ~hciEn

LEMMA BlocksStep ==
  ASSUME IInv, BlocksInv, [Next]_vars
  PROVE  BlocksInv'
<1> USE DEF BlocksInv, Opening, Halted, Sending, Go
<1>1. CASE Start \/ StopBegin \/ RemoveSources \/ StopRelease \/ TimerExpires
  BY <1>1 DEF Start, StopBegin, RemoveSources, StopRelease, TimerExpires, regVars
<1>2. CASE \E k \in 1..7 : StartFails(k)
  BY <1>2 DEF StartFails, regVars
<1>3. CASE HandlerEnter
  BY <1>3 DEF HandlerEnter, EnterWalk
<1>4. CASE WalkOn \/ WalkEnds \/ PowerOn \/ CpuHalt \/ CpuClearStatus \/ CpuStart \/ HciFuncEn
  BY <1>4 DEF WalkOn, WalkEnds, PowerOn, CpuHalt, DmacPreInit, CpuClearStatus, CpuStart, HciFuncEn, NotCpu
<1>5. CASE AllocRing \/ AllocFails \/ HciToggle
  BY <1>5 DEF AllocRing, AllocFails, HciToggle, regVars
<1>6. CASE StopDma \/ PollIdle \/ ClearIdx \/ RingSetup \/ OpenChannel \/ StartDma
  BY <1>6 DEF StopDma, PollIdle, ClearIdx, RingSetup, OpenChannel, StartDma, regVars
<1>7. CASE Doorbell \/ SendOk \/ SendTimeout \/ DownloadFails \/ DownloadDone
  BY <1>7 DEF Doorbell, SendOk, SendTimeout, DownloadFails, DownloadDone, regVars
<1>8. CASE EngineLatch \/ EngineFetch \/ WcpuReady \/ UNCHANGED vars
  BY <1>8 DEF EngineLatch, EngineFetch, WcpuReady, NotCpu, regVars, vars
<1>9. QED
  BY <1>1, <1>2, <1>3, <1>4, <1>5, <1>6, <1>7, <1>8, StepKinds

(* Every download of every load, whatever the chip was left with, runs     *)
(* with FUNC_EN and the two functions of the DLE disabled: BlocksEnabled   *)
(* fails in each of them, not in an unlucky one (RealtekWifi.cpp:350-353,  *)
(* mac.c:145-152).                                                         *)
THEOREM BlocksOff == Spec => [](step \in {"send", "poll"} => ~hciEn /\ ~dle)
<1>1. Init => BlocksInv
  BY DEF Init, BlocksInv, Opening, Halted, Sending
<1>2. BlocksInv => (step \in {"send", "poll"} => ~hciEn /\ ~dle)
  BY DEF BlocksInv, Opening, Sending
<1>3. QED
  BY <1>1, <1>2, BlocksStep, Inductive, PTL DEF Spec

-----------------------------------------------------------------------------

(* Once the walk is back at a capability it has passed, the handler keeps  *)
(* the gate for ever: no stop of that load gets past it, and the kext is   *)
(* never loaded again (RealtekWifi.cpp:115-118, 210-219).                  *)
THEOREM CircleNeverEnds ==
  Spec => [](Circling => [](Circling /\ life \notin {"detached", "stopped"}))
<1>1. IInv /\ Circling => life \notin {"detached", "stopped"}
  BY DEF IInv, LifeInv, Circling
<1>2. IInv /\ Circling /\ [Next]_vars => Circling'
  <2> SUFFICES ASSUME IInv, Circling, [Next]_vars PROVE Circling'
    OBVIOUS
  <2> USE DEF Circling, Go, walk
  <2>1. step = "wake" /\ cap \in DOMAIN seen /\ cap # 0
    BY BoundAssumption DEF IInv, TypeOK
  <2>2. \A c \in DOMAIN seen : seen[c] \in DOMAIN seen
    BY <2>1 DEF IInv, WalkInv
  <2>3. CASE Start \/ (\E k \in 1..7 : StartFails(k)) \/ StopBegin \/ RemoveSources
               \/ StopRelease \/ TimerExpires
    BY <2>1, <2>3 DEF Start, StartFails, StopBegin, RemoveSources, StopRelease, TimerExpires
  <2>4. CASE WalkOn
    <3>1. step' = step /\ cap' = seen[cap] /\ DOMAIN seen' = DOMAIN seen \cup {cap}
      BY <2>1, <2>4 DEF WalkOn
    <3>2. QED
      BY <2>1, <2>2, <3>1
  <2>5. CASE EngineLatch \/ EngineFetch \/ WcpuReady \/ UNCHANGED vars
    BY <2>1, <2>5 DEF EngineLatch, EngineFetch, WcpuReady, NotCpu, vars
  <2>6. CASE HandlerEnter \/ WalkEnds \/ PowerOn \/ CpuHalt \/ CpuClearStatus \/ CpuStart
    BY <2>1, <2>6 DEF HandlerEnter, WalkEnds, PowerOn, CpuHalt, CpuClearStatus, CpuStart
  <2>7. CASE HciFuncEn \/ AllocRing \/ AllocFails \/ HciToggle \/ StopDma \/ PollIdle
    BY <2>1, <2>7 DEF HciFuncEn, AllocRing, AllocFails, HciToggle, StopDma, PollIdle
  <2>8. CASE ClearIdx \/ RingSetup \/ OpenChannel \/ StartDma
    BY <2>1, <2>8 DEF ClearIdx, RingSetup, OpenChannel, StartDma
  <2>9. CASE Doorbell \/ SendOk \/ SendTimeout \/ DownloadFails \/ DownloadDone
    BY <2>1, <2>9 DEF Doorbell, SendOk, SendTimeout, DownloadFails, DownloadDone
  <2>10. QED
    BY <2>3, <2>4, <2>5, <2>6, <2>7, <2>8, <2>9, StepKinds
<1>3. QED
  BY <1>1, <1>2, Inductive, PTL DEF Spec

-----------------------------------------------------------------------------

(* What the handler has before it, at most, outside a circle: the          *)
(* capabilities it has not passed, the straight run to the first send, and *)
(* two steps a send.                                                       *)
Before(st) ==
    IF st = "run" THEN 0 ELSE IF st = "chan" THEN 1 ELSE IF st = "ring" THEN 2
    ELSE IF st = "clear" THEN 3 ELSE IF st = "idle" THEN 4 ELSE IF st = "stop" THEN 5
    ELSE IF st = "phy" THEN 6 ELSE IF st = "alloc" THEN 7 ELSE IF st = "hci" THEN 8
    ELSE IF st = "boot" THEN 9 ELSE IF st = "clear_sts" THEN 10
    ELSE IF st = "cpu" THEN 11 ELSE 12

Unpassed == MaxCap - Cardinality(DOMAIN seen)

HandlerAhead ==
    IF step = "none" THEN 0
    ELSE IF step = "send" THEN 1 + 2 * (MaxSends - sends)
    ELSE IF step = "poll" THEN 2 + 2 * (MaxSends - sends)
    ELSE IF step = "wake" THEN 2 * MaxSends + 15 + Unpassed
    ELSE 2 * MaxSends + 2 + Before(step)

(* A handler from its entry on.                                            *)
Longest == 2 * MaxSends + 15 + MaxCap

(* What may hold the gate before stop gets it: the handler that runs, or   *)
(* the one that waits for the gate as stop does.                           *)
StopAhead == HandlerAhead + (IF timer = "fired" THEN Longest + 1 ELSE 0)

(* A step beside a stop that has begun, outside a circle.                  *)
StopNears ==
    life = "stopping" /\ ~Circling =>
        \/ step = "none" /\ life' = "detached"
        \/ life' = "stopping" /\ StopAhead' < StopAhead
        \/ life' = "stopping" /\ UNCHANGED <<timer, step, sends, walk>>

LEMMA UnpassedNat ==
  ASSUME WalkOK
  PROVE  /\ IsFiniteSet(DOMAIN seen) /\ Cardinality(DOMAIN seen) \in Nat
         /\ Unpassed \in Nat /\ Unpassed <= MaxCap
<1>1. MaxCap \in Nat /\ DOMAIN seen \in SUBSET (1..MaxCap)
  BY BoundAssumption DEF WalkOK
<1>2. IsFiniteSet(1..MaxCap) /\ Cardinality(1..MaxCap) = MaxCap
  BY <1>1, FS_Interval
<1>3. IsFiniteSet(DOMAIN seen) /\ Cardinality(DOMAIN seen) <= MaxCap
  BY <1>1, <1>2, FS_Subset
<1>4. Cardinality(DOMAIN seen) \in Nat
  BY <1>3, FS_CardinalityType
<1>5. QED
  BY <1>1, <1>3, <1>4 DEF Unpassed

LEMMA AheadNat ==
  ASSUME TypeOK
  PROVE  HandlerAhead \in 0..Longest /\ StopAhead \in Nat
<1>1. sends \in 0..MaxSends /\ MaxSends \in Nat /\ MaxCap \in Nat
  BY BoundAssumption DEF TypeOK
<1>2. Unpassed \in Nat /\ Unpassed <= MaxCap
  BY TypeParts, UnpassedNat
<1>3. MaxSends - sends \in Nat
  BY <1>1
<1>4. Before(step) \in 0..12
  BY DEF Before
<1>5. QED
  BY <1>1, <1>2, <1>3, <1>4 DEF HandlerAhead, StopAhead, Longest

(* The walk outside a circle passes a capability with every step.          *)
LEMMA WalkLowers ==
  ASSUME TypeOK, WalkOK', ~Circling, WalkOn
  PROVE  HandlerAhead' \in Nat /\ HandlerAhead' < HandlerAhead /\ UNCHANGED <<timer, life>>
<1>1. step = "wake" /\ step' = "wake" /\ UNCHANGED <<timer, life>>
  BY DEF WalkOn, instVars
<1>2. cap \notin DOMAIN seen /\ DOMAIN seen' = DOMAIN seen \cup {cap}
  BY <1>1 DEF WalkOn, Circling
<1>3. IsFiniteSet(DOMAIN seen) /\ Cardinality(DOMAIN seen) \in Nat
  BY TypeParts, UnpassedNat
<1>4. Cardinality(DOMAIN seen') = Cardinality(DOMAIN seen) + 1
  BY <1>2, <1>3, FS_AddElement
<1>5. Cardinality(DOMAIN seen) + 1 <= MaxCap
  <2>1. DOMAIN seen' \in SUBSET (1..MaxCap) /\ MaxCap \in Nat
    BY BoundAssumption DEF WalkOK
  <2>2. IsFiniteSet(1..MaxCap) /\ Cardinality(1..MaxCap) = MaxCap
    BY <2>1, FS_Interval
  <2>3. QED
    BY <1>4, <2>1, <2>2, FS_Subset
<1>6. HandlerAhead = 2 * MaxSends + 15 + (MaxCap - Cardinality(DOMAIN seen))
  BY <1>1 DEF HandlerAhead, Unpassed
<1>7. HandlerAhead' = 2 * MaxSends + 15 + (MaxCap - Cardinality(DOMAIN seen'))
  BY <1>1 DEF HandlerAhead, Unpassed
<1>8. QED
  BY <1>1, <1>3, <1>4, <1>5, <1>6, <1>7, BoundAssumption

(* The handler never gains steps, and every step of its own costs one.     *)
LEMMA HandlerLowers ==
  ASSUME TypeOK, WalkOK', ~Circling, Handler
  PROVE  HandlerAhead' \in Nat /\ HandlerAhead' < HandlerAhead /\ UNCHANGED <<timer, life>>
<1> USE DEF Go
<1>1. sends \in 0..MaxSends /\ MaxSends \in Nat
  BY BoundAssumption DEF TypeOK
<1>2. CASE AllocFails \/ DownloadFails \/ DownloadDone \/ (PowerOn /\ step' = "none")
  <2>1. step' = "none" /\ step \in {"alloc", "send", "power"} /\ UNCHANGED <<timer, life>>
    BY <1>2 DEF AllocFails, DownloadFails, DownloadDone, PowerOn, Rest, instVars
  <2>2. HandlerAhead' = 0 /\ HandlerAhead > 0
    BY <1>1, <2>1 DEF HandlerAhead, Before
  <2>3. QED
    BY <2>1, <2>2
<1>3. ASSUME UNCHANGED <<timer, life, sends>>,
             \/ Go("power", "cpu") \/ Go("cpu", "clear_sts") \/ Go("clear_sts", "boot")
             \/ Go("boot", "hci") \/ Go("hci", "alloc") \/ Go("alloc", "phy")
             \/ Go("phy", "stop") \/ Go("stop", "idle") \/ Go("idle", "clear")
             \/ Go("clear", "ring") \/ Go("ring", "chan") \/ Go("chan", "run")
      PROVE  HandlerAhead' \in Nat /\ HandlerAhead' < HandlerAhead
  <2>1. Before(step') \in Nat /\ Before(step) = Before(step') + 1
    BY <1>3 DEF Before
  <2>2. HandlerAhead = 2 * MaxSends + 2 + Before(step)
    BY <1>3 DEF HandlerAhead
  <2>3. HandlerAhead' = 2 * MaxSends + 2 + Before(step')
    BY <1>3 DEF HandlerAhead
  <2>4. QED
    BY <1>1, <2>1, <2>2, <2>3
<1>4. CASE (PowerOn /\ step' = "cpu") \/ CpuHalt \/ CpuClearStatus \/ CpuStart
  BY <1>3, <1>4 DEF WalkOn, WalkEnds, PowerOn, CpuHalt, CpuClearStatus, CpuStart, Rest, NotCpu, instVars
<1>5. CASE HciFuncEn \/ AllocRing \/ HciToggle \/ StopDma
  BY <1>3, <1>5 DEF HciFuncEn, AllocRing, HciToggle, StopDma, Rest
<1>6. CASE PollIdle \/ ClearIdx \/ RingSetup \/ OpenChannel
  BY <1>3, <1>6 DEF PollIdle, ClearIdx, RingSetup, OpenChannel, Rest
<1>7. CASE StartDma
  <2>1. step = "run" /\ step' = "send" /\ UNCHANGED <<timer, life, sends>>
    BY <1>7 DEF StartDma, Rest
  <2>2. HandlerAhead = 2 * MaxSends + 2 /\ HandlerAhead' = 1 + 2 * (MaxSends - sends)
    BY <1>1, <2>1 DEF HandlerAhead, Before
  <2>3. QED
    BY <1>1, <2>1, <2>2
<1>8. CASE Doorbell
  <2>1. /\ step = "send" /\ step' = "poll" /\ sends < MaxSends /\ sends' = sends + 1
        /\ UNCHANGED <<timer, life>>
    BY <1>8 DEF Doorbell
  <2>2. QED
    BY <1>1, <2>1 DEF HandlerAhead
<1>9. CASE SendOk \/ SendTimeout
  <2>1. step = "poll" /\ step' = "send" /\ UNCHANGED <<timer, life, sends>>
    BY <1>9 DEF SendOk, SendTimeout, instVars
  <2>2. QED
    BY <1>1, <2>1 DEF HandlerAhead
<1>10. CASE WalkEnds
  <2>1. step = "wake" /\ step' = "power" /\ UNCHANGED <<timer, life>>
    BY <1>10 DEF WalkEnds, instVars
  <2>2. Unpassed \in Nat
    BY TypeParts, UnpassedNat
  <2>3. HandlerAhead = 2 * MaxSends + 15 + Unpassed /\ HandlerAhead' = 2 * MaxSends + 14
    BY <1>1, <2>1 DEF HandlerAhead, Before
  <2>4. QED
    BY <1>1, <2>1, <2>2, <2>3
<1>11. QED
  BY WalkLowers, <1>2, <1>4, <1>5, <1>6, <1>7, <1>8, <1>9, <1>10 DEF Handler, PowerOn

LEMMA StopStep ==
  ASSUME IInv, [Next]_vars
  PROVE  StopNears
<1> SUFFICES ASSUME life = "stopping", ~Circling PROVE StopNears
  BY DEF StopNears
<1>1. TypeOK /\ timer # "armed"
  BY DEF IInv, LifeInv
<1>2. HandlerAhead \in Nat /\ MaxSends \in Nat /\ MaxCap \in Nat /\ Longest \in Nat
  BY <1>1, AheadNat, BoundAssumption DEF Longest
<1>3. CASE Start \/ (\E k \in 1..7 : StartFails(k)) \/ StopBegin \/ StopRelease \/ TimerExpires
  BY <1>1, <1>3 DEF Start, StartFails, StopBegin, StopRelease, TimerExpires
<1>4. CASE RemoveSources
  BY <1>4 DEF RemoveSources, StopNears
<1>5. CASE HandlerEnter
  <2>1. timer = "fired" /\ timer' = "off" /\ step = "none" /\ life' = life
    BY <1>5 DEF HandlerEnter
  <2>2. StopAhead = Longest + 1
    BY <1>2, <2>1 DEF StopAhead, HandlerAhead
  <2>3. HandlerAhead' \in 0..Longest /\ HandlerAhead' + 0 = HandlerAhead'
    <3>1. DOMAIN seen' = {} /\ step' \in {"none", "wake"}
      BY <1>5, <2>1 DEF HandlerEnter, EnterWalk, IInv, WalkInv, Unread
    <3>2. Cardinality(DOMAIN seen') = 0
      BY <3>1, FS_EmptySet
    <3>3. QED
      BY <1>2, <3>1, <3>2 DEF HandlerAhead, Unpassed, Longest
  <2>4. StopAhead' = HandlerAhead'
    <3>1. StopAhead' = HandlerAhead' + 0
      BY <2>1 DEF StopAhead
    <3>2. QED
      BY <2>3, <3>1
  <2>5. QED
    BY <1>2, <2>1, <2>2, <2>3, <2>4 DEF StopNears
<1>6. CASE Handler
  <2>1. HandlerAhead' \in Nat /\ HandlerAhead' < HandlerAhead /\ UNCHANGED <<timer, life>>
    <3>1. WalkOK'
      BY StepInv DEF IInv, TypeOK, WalkOK
    <3>2. QED
      BY <1>1, <1>6, <3>1, HandlerLowers
  <2> DEFINE d == IF timer = "fired" THEN Longest + 1 ELSE 0
  <2>2. StopAhead = HandlerAhead + d /\ StopAhead' = HandlerAhead' + d /\ d \in Nat
    BY <1>2, <2>1 DEF StopAhead
  <2> HIDE DEF d
  <2>3. StopAhead' < StopAhead
    <3>1. \A a, b, c \in Nat : a < b => a + c < b + c
      OBVIOUS
    <3>2. HandlerAhead' + d < HandlerAhead + d
      BY <1>2, <2>1, <2>2, <3>1
    <3>3. QED
      BY <2>2, <3>2
  <2>4. QED
    BY <2>1, <2>3 DEF StopNears
<1>7. CASE EngineLatch \/ EngineFetch \/ WcpuReady \/ UNCHANGED vars
  BY <1>7 DEF EngineLatch, EngineFetch, WcpuReady, NotCpu, instVars, vars, StopNears
<1>8. QED
  BY <1>3, <1>4, <1>5, <1>6, <1>7 DEF Next, Stop

(* A stop that has begun finds a handler, running or waiting for the gate  *)
(* with it, that outside a circle of capabilities has at most              *)
(* 2 * MaxSends + 16 + MaxCap steps to take and takes none twice; nothing  *)
(* gives the handler more, and the gate is granted with no handler on the  *)
(* way. The circle is excepted: CircleNeverEnds says what becomes of it    *)
(* (RealtekWifi.cpp:115-118, 206-440).                                     *)
THEOREM StopWaitsBounded ==
  Spec => [](StopAhead \in 0..(2 * MaxSends + 16 + MaxCap)) /\ [][StopNears]_vars
<1>1. IInv => StopAhead \in 0..(2 * MaxSends + 16 + MaxCap)
  <2> SUFFICES ASSUME IInv PROVE StopAhead \in 0..(2 * MaxSends + 16 + MaxCap)
    OBVIOUS
  <2>1. TypeOK /\ (step # "none" => timer = "off")
    BY DEF IInv, LifeInv
  <2>2. MaxSends \in Nat /\ MaxCap \in Nat /\ HandlerAhead \in 0..Longest
    BY <2>1, AheadNat, BoundAssumption
  <2>3. CASE step = "none"
    BY <2>2, <2>3 DEF StopAhead, HandlerAhead, Longest
  <2>4. CASE step # "none"
    BY <2>1, <2>2, <2>4 DEF StopAhead, Longest
  <2>5. QED
    BY <2>3, <2>4
<1>2. IInv /\ [Next]_vars => [StopNears]_vars
  BY StepInv, StopStep
<1>3. QED
  BY <1>1, <1>2, Inductive, PTL DEF Spec
=============================================================================
