----------------------------- MODULE FwDownload ------------------------------
(***************************************************************************)
(* rtw89_fw_download (rtw89/fw.c): the download of a firmware image,       *)
(* section by section, through a channel that sends one packet at a time   *)
(* and reports success or failure.                                         *)
(*                                                                         *)
(* The channel is seen through its return value alone: a send succeeds or  *)
(* fails at will. The on-chip CPU (WCPU, external) raises and drops the    *)
(* status bits of R_AX_WCPU_FW_CTRL at will. What is stated here therefore *)
(* holds over any channel and any chip; FwdlOverCh12 puts the real ring    *)
(* underneath.                                                             *)
(***************************************************************************)
EXTENDS Integers, Sequences

CONSTANTS
    Images,     (* the firmware images the module may be given             *)
    PartSize,   (* FWDL_SECTION_PER_PKT_LEN: most bytes of one packet      *)
    SecCap,     (* FWDL_SECTION_MAX_NUM: sections the loop will look at    *)
    Retries     (* attempts                                                *)

(***************************************************************************)
(* An image is what the code reads of it: the header version (0 or 1), the *)
(* section sizes of the section table, fw_size, and at, the place where    *)
(* the format puts the data of each section: one after another behind the  *)
(* header and the 16-byte section headers. at[n + 1] is the end.           *)
(***************************************************************************)
HdrLen(im) == IF im.ver = 0 THEN 32 ELSE 48
SecNum(im) == Len(im.secs)

ASSUME ParamAssumption ==
    PartSize \in Nat /\ PartSize >= 48 /\ SecCap \in Nat /\ Retries \in Nat \ {0}

ASSUME ImageAssumption == \A im \in Images :
    /\ im.ver \in {0, 1} /\ im.size \in Nat /\ im.secs \in Seq(Nat)
    /\ im.at \in [1..SecNum(im) + 1 -> Nat]
    /\ im.at[1] = HdrLen(im) + 16 * SecNum(im)
    /\ \A i \in 1..SecNum(im) : im.at[i + 1] = im.at[i] + im.secs[i]

VARIABLES
    img,       (* the image passed in                                      *)
    step,      (* where the function is                                    *)
    retry,     (* the loop counter: attempts that have failed              *)
    sec,       (* section index, from 1                                    *)
    off,       (* offset of the next chunk in the section                  *)
    base,      (* data_offset                                              *)
    result,    (* "none", then "ok" (0) or "fail" (-1)                     *)
    fwReady,   (* RTW89_FLAG_FW_RDY                                        *)
    sent,      (* history: packets accepted in the last attempt that got   *)
               (* past its header                                          *)
    h2cRdy, fwdlRdy, sts   (* R_AX_WCPU_FW_CTRL, written by the WCPU       *)

loopVars == <<retry, sec, off, base>>
outVars  == <<result, fwReady>>
wcpuVars == <<h2cRdy, fwdlRdy, sts>>
vars     == <<img, step, loopVars, outVars, sent, wcpuVars>>

Lesser(a, b) == IF a <= b THEN a ELSE b

(* The loop bound of the section loop.                                     *)
LoopSecs(im) == Lesser(SecNum(im), SecCap)

Init ==
    /\ img \in Images
    /\ step = "entry" /\ retry = 0 /\ sec = 1 /\ off = 0 /\ base = 0
    /\ result = "none" /\ fwReady = FALSE /\ sent = <<>>
    /\ h2cRdy = FALSE /\ fwdlRdy = FALSE /\ sts = "other"

(***************************************************************************)
(* Leaving the function, and the `continue' of the attempt loop.           *)
(***************************************************************************)
Return(r) == step' = "done" /\ result' = r

(* Mutant: `retry <= 3' as the loop condition.                             *)
OneAttemptMore ==
    /\ retry' = retry + 1
    /\ IF retry + 1 <= Retries
       THEN step' = "header" /\ UNCHANGED result
       ELSE Return("fail")
    /\ UNCHANGED <<img, sec, off, base, fwReady, sent, wcpuVars>>

(* Mutant: the loop counter is not advanced.                               *)
AttemptUncounted ==
    /\ step' = "header"
    /\ UNCHANGED <<img, loopVars, outVars, sent, wcpuVars>>

(* Mutant: `return -1' in place of `continue'.                             *)
FirstFailureReturns ==
    /\ Return("fail")
    /\ UNCHANGED <<img, loopVars, fwReady, sent, wcpuVars>>

NextAttempt ==
    /\ retry' = retry + 1
    /\ IF retry + 1 < Retries
       THEN step' = "header" /\ UNCHANGED result
       ELSE Return("fail")
    /\ UNCHANGED <<img, sec, off, base, fwReady, sent, wcpuVars>>

(***************************************************************************)
(* Before the attempts.                                                    *)
(***************************************************************************)
CheckArgs ==
    /\ step = "entry"
    /\ IF img.size < 64 THEN Return("fail") ELSE step' = "h2cPath" /\ UNCHANGED result
    /\ UNCHANGED <<img, loopVars, fwReady, sent, wcpuVars>>

(* read_poll_fwdl_path_rdy(true): the bit is seen, or the budget runs out  *)
(* on a read that does not see it.                                         *)
H2cPathPoll ==
    /\ step = "h2cPath"
    /\ IF h2cRdy THEN step' = "header" /\ UNCHANGED result ELSE Return("fail")
    /\ UNCHANGED <<img, loopVars, fwReady, sent, wcpuVars>>

(***************************************************************************)
(* One attempt: header, FWDL path, sections, ready check.                  *)
(***************************************************************************)
HeaderSent ==
    /\ step = "header"
    /\ step' = "fwdlPath"
    /\ sent' = <<[at |-> 0, n |-> HdrLen(img)]>>
    /\ UNCHANGED <<img, loopVars, outVars, wcpuVars>>

HeaderFailed == step = "header" /\ NextAttempt

FwdlPathReady ==
    /\ step = "fwdlPath" /\ fwdlRdy
    /\ step' = "sections"
    /\ sec' = 1 /\ off' = 0
    /\ base' = HdrLen(img) + 16 * SecNum(img)
    /\ UNCHANGED <<img, retry, outVars, sent, wcpuVars>>

FwdlPathTimeout == step = "fwdlPath" /\ ~fwdlRdy /\ NextAttempt

InSection == step = "sections" /\ sec <= LoopSecs(img)

SkipEmptySection ==
    /\ InSection /\ img.secs[sec] = 0
    /\ sec' = sec + 1
    /\ UNCHANGED <<img, step, retry, off, base, outVars, sent, wcpuVars>>

(* Mutant: every chunk has the full size.                                  *)
ChunkAlwaysFull == PartSize

Chunk == Lesser(img.secs[sec] - off, PartSize)

(* Mutant: data_offset is not moved past a finished section.               *)
OffsetStays ==
    /\ InSection /\ img.secs[sec] # 0
    /\ sent' = Append(sent, [at |-> base + off, n |-> Chunk])
    /\ IF off + Chunk < img.secs[sec]
       THEN off' = off + Chunk /\ UNCHANGED sec
       ELSE off' = 0 /\ sec' = sec + 1
    /\ UNCHANGED <<img, step, retry, base, outVars, wcpuVars>>

(* A chunk was accepted; the last one of a section moves data_offset on.   *)
ChunkSent ==
    /\ InSection /\ img.secs[sec] # 0
    /\ sent' = Append(sent, [at |-> base + off, n |-> Chunk])
    /\ IF off + Chunk < img.secs[sec]
       THEN off' = off + Chunk /\ UNCHANGED <<sec, base>>
       ELSE off' = 0 /\ sec' = sec + 1 /\ base' = base + img.secs[sec]
    /\ UNCHANGED <<img, step, retry, outVars, wcpuVars>>

(* Mutant: section_ok is not tested after the loop.                        *)
FailureUntested ==
    /\ InSection /\ img.secs[sec] # 0
    /\ step' = "check"
    /\ UNCHANGED <<img, loopVars, outVars, sent, wcpuVars>>

ChunkFailed == InSection /\ img.secs[sec] # 0 /\ NextAttempt

SectionsDone ==
    /\ step = "sections" /\ sec > LoopSecs(img)
    /\ step' = "check"
    /\ UNCHANGED <<img, loopVars, outVars, sent, wcpuVars>>

(* rtw89_fw_check_rdy: FWDL_STS reads 7, or the budget runs out.           *)
CheckReady ==
    /\ step = "check" /\ sts = "initRdy"
    /\ Return("ok") /\ fwReady' = TRUE
    /\ UNCHANGED <<img, loopVars, sent, wcpuVars>>

CheckTimeout == step = "check" /\ sts # "initRdy" /\ NextAttempt

(***************************************************************************)
(* The WCPU (external): its status bits change at any time.                *)
(***************************************************************************)
WcpuStep ==
    /\ h2cRdy' \in BOOLEAN /\ fwdlRdy' \in BOOLEAN /\ sts' \in {"other", "initRdy"}
    /\ UNCHANGED <<img, step, loopVars, outVars, sent>>

Driver ==
    \/ CheckArgs \/ H2cPathPoll
    \/ HeaderSent \/ HeaderFailed \/ FwdlPathReady \/ FwdlPathTimeout
    \/ SkipEmptySection \/ ChunkSent \/ ChunkFailed \/ SectionsDone
    \/ CheckReady \/ CheckTimeout

Next == Driver \/ WcpuStep

Spec == Init /\ [][Next]_vars

(* Every wait of the function is a bounded poll or an IODelay.             *)
FairSpec == Spec /\ WF_vars(Driver)

(***************************************************************************)
(* Properties.                                                             *)
(***************************************************************************)
TypeOK ==
    /\ img \in Images
    /\ step \in {"entry", "h2cPath", "header", "fwdlPath", "sections", "check", "done"}
    /\ retry \in 0..Retries /\ sec \in 1..SecNum(img) + 1 /\ off \in Nat /\ base \in Nat
    /\ result \in {"none", "ok", "fail"} /\ fwReady \in BOOLEAN
    /\ sent \in Seq([at : Nat, n : Nat])
    /\ h2cRdy \in BOOLEAN /\ fwdlRdy \in BOOLEAN /\ sts \in {"other", "initRdy"}

(* The packets of an attempt are the header and then the section data      *)
(* without a gap, an overlap or a packet larger than PartSize, through     *)
(* every section boundary (the two offsets of fw.c:117-148).               *)
Tiling ==
    \A k \in 2..Len(sent) :
        /\ sent[k].n \in 1..PartSize
        /\ sent[k].at = IF k = 2 THEN img.at[1] ELSE sent[k - 1].at + sent[k - 1].n

(* How far into the image the packets of this attempt reach.               *)
Reached ==
    IF Len(sent) <= 1 THEN img.at[1] ELSE sent[Len(sent)].at + sent[Len(sent)].n

(* FW_RDY is set, and 0 returned, only when the packets of that very       *)
(* attempt reach from the header to the end of the last section the loop   *)
(* considers: a failed chunk never slips through to the ready check        *)
(* (section_ok, fw.c:139-150).                                             *)
ReadyMeansAllSent ==
    fwReady =>
        /\ sent # <<>> /\ sent[1] = [at |-> 0, n |-> HdrLen(img)]
        /\ Reached = img.at[LoopSecs(img) + 1]

(* Given an image whose sections lie inside it, no packet is read from     *)
(* beyond its end (fw.c:134-136 checks nothing itself).                    *)
WellFormed(im) == \A i \in 1..SecNum(im) + 1 : im.at[i] <= im.size

ReadsInsideImage ==
    WellFormed(img) => \A k \in 1..Len(sent) : sent[k].at + sent[k].n <= img.size

(* The function gives up only after all its attempts, or before the first. *)
GivesUpLate ==
    result = "fail" => retry = Retries \/ (retry = 0 /\ sent = <<>>)

(* The function returns, whatever the channel and the chip do.             *)
Terminates == <>(step = "done")

(* Success means that all the sections of the image were sent              *)
(* (src/README.md:8 counts 26 of them in the firmware).                    *)
AllSectionsSent ==
    result = "ok" => Reached = img.at[SecNum(img) + 1]

(* "Embedded 1MB firmware binary in kext and implemented section-by-section *)
(* DMA delivery" (src/README.md:14): what is delivered is the binary. Every *)
(* packet lies inside it.                                                  *)
DeliversTheBinary == \A k \in 1..Len(sent) : sent[k].at + sent[k].n <= img.size
=============================================================================
