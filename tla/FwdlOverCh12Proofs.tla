------------------------- MODULE FwdlOverCh12Proofs --------------------------
(***************************************************************************)
(* Proofs about the download over the CH12 ring, for every image, every    *)
(* number of attempts, every poll budget and every device index modulus.   *)
(*                                                                         *)
(* The composition is a run of both its parts: each of its steps is a step *)
(* or a stutter of FwDownload, and a step or a stutter of Ch12Dma. So both *)
(* inductive invariants hold of it, and only what ties the two together is *)
(* left to prove: a WCPU that is handed one packet never boots, and no     *)
(* send comes before the H2C path is open.                                 *)
(***************************************************************************)
EXTENDS FwdlOverCh12, FwDownloadProofs

(* The ring, with what is proved of it.                                    *)
RP == INSTANCE Ch12DmaProofs WITH Lens <- 0..PartSize

(* The WCPU has not booted, so no download has succeeded.                  *)
NotBooted == sts # "initRdy" /\ ~fwReady

(* The first send comes after the H2C path was found ready.                *)
SendsAfterPath == sends # 0 => step \notin {"entry", "h2cPath"}

OverInv == IInv /\ RP!IInv /\ NotBooted /\ SendsAfterPath

-----------------------------------------------------------------------------

(* What the ring assumes of its constants holds of its instance here.      *)
LEMMA RingParams ==
    /\ 0..PartSize \subseteq 0..2020
    /\ MaxSends \in Nat /\ PollBudget \in Nat \ {0} /\ IdxModulus \in Nat \ {0}
BY RingAssumption, ParamAssumption

(* Every step of the composition is one of the download, or none of it.    *)
LEMMA DownloadStep == [OverNext]_allVars => [Next]_vars
<1> SUFFICES ASSUME [OverNext]_allVars PROVE [Next]_vars
  OBVIOUS
<1>1. CASE Between
  BY <1>1 DEF Between, Next, Driver
<1>2. CASE Resume
  BY <1>2 DEF Resume, Next, Driver
<1>3. CASE Wcpu
  BY <1>3 DEF Wcpu, Next
<1>4. CASE Setup \/ Call \/ Inside \/ Teardown \/ Hardware
  BY <1>4 DEF Setup, Call, Inside, Teardown, Hardware
<1>5. CASE UNCHANGED allVars
  BY <1>5 DEF allVars
<1>6. QED
  BY <1>1, <1>2, <1>3, <1>4, <1>5 DEF OverNext, DriverStep

(* A packet of the download is one the ring takes.                         *)
LEMMA SendLenFits == ASSUME IInv, AtSend PROVE SendLen \in 0..PartSize
<1>1. CASE step = "header"
  BY <1>1, ImageFacts, ParamAssumption DEF SendLen, IInv
<1>2. CASE InSection /\ img.secs[sec] # 0
  <2>1. Chunk \in 1..PartSize
    BY <1>2, ChunkBounds DEF IInv
  <2>2. SendLen = Chunk
    BY <1>2 DEF SendLen, InSection
  <2>3. QED
    BY <2>1, <2>2, ParamAssumption
<1>3. QED
  BY <1>1, <1>2 DEF AtSend

(* Every step of the composition is one of the ring, or none of it.        *)
LEMMA RingStep == IInv /\ [OverNext]_allVars => [RP!Next]_RP!vars
<1> SUFFICES ASSUME IInv, [OverNext]_allVars PROVE [RP!Next]_RP!vars
  OBVIOUS
<1>1. CASE Setup
  <2>1. RP!RingInit
    BY <1>1 DEF Setup, Ring!RingInit, RP!RingInit, Ring!hwVars, RP!hwVars, Ring!histVars,
        RP!histVars
  <2>2. QED
    BY <2>1 DEF RP!Next, RP!Driver
<1>2. CASE Teardown
  <2>1. RP!Release
    BY <1>2 DEF Teardown, Ring!Release, RP!Release, Ring!hwVars, RP!hwVars, Ring!histVars,
        RP!histVars, Ring!cpuVars, RP!cpuVars, Ring!dmaVars, RP!dmaVars
  <2>2. QED
    BY <2>1 DEF RP!Next, RP!Driver
<1>3. CASE Call
  <2>1. SendLen \in 0..PartSize
    BY <1>3, SendLenFits DEF Call
  <2>2. RP!SendBegin(SendLen)
    BY <1>3 DEF Call, Ring!SendBegin, RP!SendBegin, Ring!Transition, RP!Transition,
        Ring!NoPacket, RP!NoPacket, Ring!dmaVars, RP!dmaVars, Ring!hwVars, RP!hwVars,
        Ring!histVars, RP!histVars
  <2>3. QED
    BY <2>1, <2>2 DEF RP!Next, RP!Driver
<1>4. CASE Inside
  <2> USE DEF Ring!Transition, RP!Transition, Ring!cpuVars, RP!cpuVars, Ring!dmaVars,
        RP!dmaVars, Ring!hwVars, RP!hwVars, Ring!histVars, RP!histVars
  <2>1. Ring!FillBuffer => RP!FillBuffer
    BY DEF Ring!FillBuffer, RP!FillBuffer, Ring!TotalSize, RP!TotalSize
  <2>2. Ring!WriteBd => RP!WriteBd
    BY DEF Ring!WriteBd, RP!WriteBd, Ring!TotalSize, RP!TotalSize
  <2>3. Ring!Doorbell => RP!Doorbell
    BY DEF Ring!Doorbell, RP!Doorbell, Ring!Barrier, RP!Barrier, Ring!Wrap, RP!Wrap
  <2>4. Ring!PollDone => RP!PollDone
    BY DEF Ring!PollDone, RP!PollDone
  <2>5. Ring!PollAgain => RP!PollAgain
    BY DEF Ring!PollAgain, RP!PollAgain
  <2>6. Ring!PollTimeout => RP!PollTimeout
    BY DEF Ring!PollTimeout, RP!PollTimeout
  <2>7. QED
    BY <1>4, <2>1, <2>2, <2>3, <2>4, <2>5, <2>6 DEF Inside, Ring!SendProgress, RP!Next, RP!Driver
<1>5. CASE Hardware
  <2> USE DEF Ring!drvVars, RP!drvVars, Ring!cpuVars, RP!cpuVars, Ring!dmaVars, RP!dmaVars,
        Ring!hwVars, RP!hwVars, Ring!histVars, RP!histVars
  <2>1. Ring!DrainBuf => RP!DrainBuf
    BY DEF Ring!DrainBuf, RP!DrainBuf
  <2>2. Ring!DrainBd => RP!DrainBd
    BY DEF Ring!DrainBd, RP!DrainBd
  <2>3. Ring!EngineLatch => RP!EngineLatch
    BY DEF Ring!EngineLatch, RP!EngineLatch, Ring!Pending, RP!Pending
  <2>4. Ring!EngineFetch => RP!EngineFetch
    BY DEF Ring!EngineFetch, RP!EngineFetch, Ring!Fetched, RP!Fetched, Ring!Wrap, RP!Wrap
  <2>5. QED
    BY <1>5, <2>1, <2>2, <2>3, <2>4
    DEF Hardware, Ring!Memory, Ring!Engine, RP!Next, RP!Memory, RP!Engine
<1>6. CASE UNCHANGED ringVars
  BY <1>6 DEF ringVars, RP!vars, RP!drvVars, RP!cpuVars, RP!dmaVars, RP!hwVars, RP!histVars
<1>7. QED
  BY <1>1, <1>2, <1>3, <1>4, <1>5, <1>6
  DEF OverNext, DriverStep, Between, Resume, Wcpu, allVars

(* The device has been handed at most one packet, and not before a send;   *)
(* without a timeout it is the first packet.                               *)
LEMMA WhatArrives ==
    ASSUME RP!IInv
    PROVE  /\ received = <<>> \/ \E p : received = <<p>>
           /\ received # <<>> => sends # 0
           /\ ~timedOut /\ received # <<>> => received = <<1>>
<1>1. hwIdx \in {0, 1} /\ sends \in Nat
  BY RingParams DEF RP!IInv, RP!TypeOK, RP!Packets
<1>2. CASE hwIdx = 0
  BY <1>2 DEF RP!IInv, RP!IndexInv
<1>3. CASE hwIdx = 1
  <2>1. sends >= 1 /\ \E p \in RP!Packets : received = <<p>>
    BY <1>3 DEF RP!IInv, RP!IndexInv
  <2>2. ~timedOut => received = <<1>>
    BY <1>3 DEF RP!IInv, RP!FirstInv
  <2>3. QED
    BY <1>1, <2>1, <2>2
<1>4. QED
  BY <1>1, <1>2, <1>3

(* A WCPU that boots after two packets does not boot.                      *)
LEMMA NotBootedStep ==
    ASSUME IInv, RP!IInv, NotBooted, [OverNext]_allVars PROVE NotBooted'
<1>1. CASE Wcpu
  <2>1. ~(Len(received) >= 2)
    <3>1. Len(<<>>) = 0 /\ \A p : Len(<<p>>) = 1
      OBVIOUS
    <3>2. QED
      BY <3>1, WhatArrives
  <2>2. QED
    BY <1>1, <2>1 DEF Wcpu, WcpuStep, NotBooted, outVars
<1>2. CASE Between
  BY <1>2 DEF Between, NotBooted, CheckArgs, H2cPathPoll, FwdlPathReady, FwdlPathTimeout,
      NextAttempt, SkipEmptySection, SectionsDone, CheckReady, CheckTimeout, wcpuVars, outVars
<1>3. CASE Resume
  BY <1>3 DEF Resume, NotBooted, HeaderSent, HeaderFailed, ChunkSent, ChunkFailed,
      NextAttempt, wcpuVars, outVars
<1>4. CASE UNCHANGED vars
  BY <1>4 DEF NotBooted, vars, wcpuVars, outVars
<1>5. QED
  BY <1>1, <1>2, <1>3, <1>4
  DEF OverNext, DriverStep, Setup, Call, Inside, Teardown, Hardware, allVars

(* No step leads back before the H2C path, and none sends before it.       *)
LEMMA SendsAfterPathStep ==
    ASSUME SendsAfterPath, [OverNext]_allVars PROVE SendsAfterPath'
<1>1. CASE Call
  BY <1>1 DEF Call, AtSend, InSection, vars, SendsAfterPath
<1>2. CASE Between
  BY <1>2 DEF Between, ringVars, SendsAfterPath, CheckArgs, H2cPathPoll, Return, FwdlPathReady,
      FwdlPathTimeout, NextAttempt, SkipEmptySection, SectionsDone, CheckReady, CheckTimeout
<1>3. CASE Resume
  BY <1>3 DEF Resume, ringVars, SendsAfterPath, HeaderSent, HeaderFailed, ChunkSent,
      ChunkFailed, NextAttempt, Return, InSection
<1>4. CASE Setup \/ Teardown
  BY <1>4 DEF Setup, Teardown, Ring!RingInit, Ring!Release, vars, SendsAfterPath
<1>5. CASE Inside
  BY <1>5 DEF Inside, Ring!SendProgress, Ring!FillBuffer, Ring!WriteBd, Ring!Doorbell,
      Ring!PollDone, Ring!PollAgain, Ring!PollTimeout, vars, SendsAfterPath
<1>6. CASE Hardware
  BY <1>6 DEF Hardware, Ring!Memory, Ring!Engine, Ring!DrainBuf, Ring!DrainBd,
      Ring!EngineLatch, Ring!EngineFetch, Ring!drvVars, vars, SendsAfterPath
<1>7. CASE Wcpu \/ UNCHANGED allVars
  BY <1>7 DEF Wcpu, WcpuStep, allVars, ringVars, vars, SendsAfterPath
<1>8. QED
  BY <1>1, <1>2, <1>3, <1>4, <1>5, <1>6, <1>7 DEF OverNext, DriverStep

(* The invariant holds initially.                                          *)
LEMMA InitOverInv == OverInit => OverInv
<1>1. OverInit => IInv
  BY InitIInv DEF OverInit
<1>2. OverInit => RP!Init
  BY DEF OverInit, Ring!Init, RP!Init, Ring!NoPacket, RP!NoPacket
<1>3. RP!Init => RP!IInv
  BY RingParams, RP!InitIInv
<1>4. OverInit => NotBooted /\ SendsAfterPath
  BY DEF OverInit, Init, Ring!Init, NotBooted, SendsAfterPath
<1>5. QED
  BY <1>1, <1>2, <1>3, <1>4 DEF OverInv

(* Every step of the composition keeps it.                                 *)
LEMMA NextOverInv == OverInv /\ [OverNext]_allVars => OverInv'
<1> SUFFICES ASSUME OverInv, [OverNext]_allVars PROVE OverInv'
  OBVIOUS
<1>1. IInv'
  BY DownloadStep, NextIInv DEF OverInv
<1>2. RP!IInv'
  <2>1. RP!IInv /\ [RP!Next]_RP!vars => RP!IInv'
    BY RingParams, RP!NextIInv
  <2>2. QED
    BY <2>1, RingStep DEF OverInv
<1>3. QED
  BY <1>1, <1>2, NotBootedStep, SendsAfterPathStep DEF OverInv

(* The invariant holds in every reachable state.                           *)
LEMMA SpecOverInv == OverSpec => []OverInv
BY InitOverInv, NextOverInv, PTL DEF OverSpec

-----------------------------------------------------------------------------

(* The download over the ring is a download over some channel              *)
(* (fw.c:61-167 calling pci.c:89-145).                                     *)
THEOREM StillADownload == OverSpec => Spec
<1>1. OverInit => Init
  BY DEF OverInit
<1>2. QED
  BY <1>1, DownloadStep, PTL DEF OverSpec, Spec

(* However many attempts, and whatever the device index counts modulo, the *)
(* firmware never gets further than the header of the first attempt        *)
(* (pci.c:127, fw.c:78-167).                                               *)
THEOREM StuckAtHeader == OverSpec => []HeaderIsAll
<1>1. OverInv => HeaderIsAll
  BY WhatArrives DEF OverInv, NotBooted, SendsAfterPath, HeaderIsAll, NeverReady,
     OnlyHeaderArrives
<1>2. QED
  BY <1>1, SpecOverInv, PTL

-----------------------------------------------------------------------------

(* Under the download the ring is that of Ch12Dma, so that what is proved  *)
(* of the ring with any caller holds of it with this one; above all the    *)
(* contract of the mailbox that is emptied at most once (pci.c:89-145).    *)
THEOREM StillARing == OverSpec => RP!Spec /\ RP!ImplementsMailbox
<1>1. OverInit => RP!Init
  BY DEF OverInit, Ring!Init, RP!Init, Ring!NoPacket, RP!NoPacket
<1>2. OverSpec => RP!Spec
  BY <1>1, RingStep, SpecOverInv, PTL DEF OverSpec, OverInv, RP!Spec
<1>3. RP!Spec => RP!ImplementsMailbox
  BY RingParams, RP!RingImplementsMailbox
<1>4. QED
  BY <1>2, <1>3, PTL

(* The packets handed to the ring tile the image and stay inside it,       *)
(* however the calls of send_h2c end and whatever drains or is fetched     *)
(* between their steps (fw.c:91-143).                                      *)
THEOREM SafeOverRing == OverSpec => [](Tiling /\ ReadsInsideImage)
<1>1. OverInv => Tiling /\ ReadsInsideImage
  BY DEF OverInv, IInv
<1>2. QED
  BY <1>1, SpecOverInv, PTL

(* The function has returned something.                                    *)
Returned == step = "done" => result # "none"

LEMMA ReturnedStep == ASSUME IInv, Returned, [Next]_vars PROVE Returned'
<1> USE DEF Returned, IInv, AttemptInv, Return, NextAttempt, wcpuVars, outVars
<1>1. CASE CheckArgs \/ H2cPathPoll \/ CheckReady \/ SectionsDone
  BY <1>1 DEF CheckArgs, H2cPathPoll, CheckReady, SectionsDone
<1>2. CASE HeaderSent \/ FwdlPathReady \/ SkipEmptySection \/ ChunkSent
  BY <1>2 DEF HeaderSent, FwdlPathReady, SkipEmptySection, ChunkSent, InSection
<1>3. CASE HeaderFailed \/ FwdlPathTimeout \/ ChunkFailed \/ CheckTimeout
  BY <1>3 DEF HeaderFailed, FwdlPathTimeout, ChunkFailed, CheckTimeout
<1>4. CASE WcpuStep \/ UNCHANGED vars
  BY <1>4 DEF WcpuStep, vars
<1>5. QED
  BY <1>1, <1>2, <1>3, <1>4 DEF Next, Driver

(* What a download over this ring comes to: it fails, and not before all   *)
(* its attempts were made unless nothing was sent at all. No image, budget *)
(* or index modulus makes it succeed (fw.c:78-167, pci.c:127).             *)
FailsInTheEnd == step = "done" => result = "fail" /\ (retry = Retries \/ sent = <<>>)

THEOREM EndsInFailure == OverSpec => []FailsInTheEnd
<1>1. Init => Returned
  BY DEF Init, Returned
<1>2. OverInit => Returned
  BY <1>1 DEF OverInit
<1>3. OverInv /\ Returned /\ [OverNext]_allVars => Returned'
  BY DownloadStep, ReturnedStep DEF OverInv
<1>4. OverInv /\ Returned => FailsInTheEnd
  BY DEF OverInv, IInv, TypeOK, AttemptInv, GivesUpLate, NotBooted, Returned, FailsInTheEnd
<1>5. QED
  BY <1>2, <1>3, <1>4, SpecOverInv, PTL DEF OverSpec
=============================================================================
