---------------------------- MODULE FwdlOverCh12 -----------------------------
(***************************************************************************)
(* rtw89_fw_download running over the CH12 ring: what handleTimer calls at *)
(* the end of the power-on sequence (RealtekWifi.cpp:482), with the DMA    *)
(* engine, the memory system and the WCPU running beside it.               *)
(*                                                                         *)
(* The steps of FwDownload that send a packet become a call of             *)
(* rtw89_pci_ch12_send_h2c and its return; everything else is the two      *)
(* modules side by side. The WCPU is no longer arbitrary: it raises        *)
(* FWDL_PATH_RDY only once it has been handed a packet, and it boots only  *)
(* once it has been handed at least a header and one more.                 *)
(***************************************************************************)
EXTENDS FwDownload

CONSTANTS MaxSends, PollBudget, IdxModulus   (* as in Ch12Dma *)

(* A chunk fits behind the descriptor and the header of the ring's buffer. *)
ASSUME RingAssumption ==
    /\ PartSize <= 2020
    /\ MaxSends \in Nat /\ PollBudget \in Nat \ {0} /\ IdxModulus \in Nat \ {0}

VARIABLES
    pc, ring, sends, len, polls, ret, buf, bd, dmaBuf, dmaBd, hostIdx, hwIdx,
    engine, latched, received, acked, timedOut,   (* as in Ch12Dma         *)
    called     (* fw_download is inside send_h2c                           *)

Ring == INSTANCE Ch12Dma WITH Lens <- 0..PartSize

ringVars ==
    <<pc, ring, sends, len, polls, ret, buf, bd, dmaBuf, dmaBd, hostIdx, hwIdx,
      engine, latched, received, acked, timedOut>>
allVars == <<vars, ringVars, called>>

OverInit == Init /\ Ring!Init /\ called = FALSE

(* handleTimer initialises the ring before it downloads.                   *)
Setup == step = "entry" /\ Ring!RingInit /\ UNCHANGED <<vars, called>>

(* stop releases the ring once handleTimer is over.                        *)
Teardown == step = "done" /\ Ring!Release /\ UNCHANGED <<vars, called>>

(* Steps of the download that send nothing.                                *)
Between ==
    /\ ring = "ready" /\ ~called
    /\ \/ CheckArgs \/ H2cPathPoll \/ FwdlPathReady \/ FwdlPathTimeout
       \/ SkipEmptySection \/ SectionsDone \/ CheckReady \/ CheckTimeout
    /\ UNCHANGED <<ringVars, called>>

SendLen == IF step = "header" THEN HdrLen(img) ELSE Chunk

AtSend == step = "header" \/ (InSection /\ img.secs[sec] # 0)

Call ==
    /\ ~called /\ AtSend
    /\ Ring!SendBegin(SendLen)
    /\ called' = TRUE
    /\ UNCHANGED vars

(* Mutant: a failed send ends the download instead of the attempt.         *)
ResumeGivesUp ==
    /\ called /\ pc = "idle"
    /\ called' = FALSE
    /\ IF ret = "ok"
       THEN HeaderSent \/ ChunkSent
       ELSE Return("fail") /\ UNCHANGED <<img, loopVars, fwReady, sent, wcpuVars>>
    /\ UNCHANGED ringVars

(* send_h2c has returned: the download goes on with its return value.      *)
Resume ==
    /\ called /\ pc = "idle"
    /\ called' = FALSE
    /\ IF ret = "ok" THEN HeaderSent \/ ChunkSent ELSE HeaderFailed \/ ChunkFailed
    /\ UNCHANGED ringVars

Inside == called /\ Ring!SendProgress /\ UNCHANGED <<vars, called>>

Hardware == (Ring!Memory \/ Ring!Engine) /\ UNCHANGED <<vars, called>>

Wcpu ==
    /\ WcpuStep
    /\ fwdlRdy' => received # <<>> /\ received[1] # 0
    /\ sts' = "initRdy" => Len(received) >= 2
    /\ UNCHANGED <<ringVars, called>>

DriverStep == Setup \/ Between \/ Call \/ Inside \/ Resume

OverNext == DriverStep \/ Teardown \/ Hardware \/ Wcpu

OverSpec == OverInit /\ [][OverNext]_allVars

OverFairSpec == OverSpec /\ WF_allVars(DriverStep)

(***************************************************************************)
(* Properties.                                                             *)
(***************************************************************************)

(* The download over the real ring is a download over some channel, and    *)
(* since every send returns it keeps making progress as that one does.     *)
ImplementsDownload == FairSpec

(* Over this ring no download ever reports the firmware ready: the device  *)
(* is handed one packet at most, a download needs two (pci.c:127).         *)
NeverReady == ~fwReady

(* Unless a send has timed out, what the WCPU was handed is the header of  *)
(* the first attempt (fw.c:99).                                            *)
OnlyHeaderArrives ==
    ~timedOut /\ received # <<>> => received = <<1>> /\ step \notin {"entry", "h2cPath"}

(* However often it is retried, a download over this ring comes to the     *)
(* header of its first attempt and no further.                             *)
HeaderIsAll == NeverReady /\ OnlyHeaderArrives
=============================================================================
