-------------------------- MODULE FwDownloadProofs ---------------------------
(***************************************************************************)
(* Proofs about FwDownload for every image, packet size, section cap and   *)
(* number of attempts.                                                     *)
(*                                                                         *)
(* The invariant ties the two offsets of the code, data_offset and the     *)
(* offset in the section, to the section starts of the image and to how    *)
(* far the accepted packets reach.                                         *)
(***************************************************************************)
EXTENDS FwDownload, TLAPS

(* Before the first attempt nothing was sent; until the function returns   *)
(* an attempt is left.                                                     *)
AttemptInv ==
    /\ step \in {"entry", "h2cPath"} => retry = 0 /\ sent = <<>>
    /\ step # "done" => retry < Retries /\ result = "none" /\ ~fwReady
    /\ fwReady <=> result = "ok"
    /\ GivesUpLate

(* What has been sent when the loop stands at section sec, offset off.     *)
LoopInv ==
    /\ step \in {"fwdlPath", "sections", "check"} => sent # <<>>
    /\ step = "fwdlPath" => Len(sent) = 1
    /\ step = "sections" =>
          /\ sec <= LoopSecs(img) + 1
          /\ base = img.at[sec] /\ Reached = base + off
          /\ IF sec <= LoopSecs(img) THEN off = 0 \/ off < img.secs[sec] ELSE off = 0
    /\ step = "check" => Reached = img.at[LoopSecs(img) + 1]

HeaderInv == sent # <<>> => sent[1] = [at |-> 0, n |-> HdrLen(img)]

IInv ==
    /\ TypeOK /\ AttemptInv /\ LoopInv /\ HeaderInv /\ Tiling /\ ReadsInsideImage
    /\ ReadyMeansAllSent

-----------------------------------------------------------------------------

(* What the image assumption says of the image at hand.                    *)
LEMMA ImageFacts ==
    ASSUME TypeOK
    PROVE  /\ SecNum(img) \in Nat /\ LoopSecs(img) \in Nat /\ LoopSecs(img) <= SecNum(img)
           /\ HdrLen(img) \in {32, 48}
           /\ \A i \in 1..SecNum(img) + 1 : img.at[i] \in Nat
           /\ img.at[1] = HdrLen(img) + 16 * SecNum(img)
           /\ \A i \in 1..SecNum(img) :
                 img.secs[i] \in Nat /\ img.at[i + 1] = img.at[i] + img.secs[i]
           /\ img.size \in Nat
<1>1. img \in Images
  BY DEF TypeOK
<1>2. SecNum(img) \in Nat /\ \A i \in 1..SecNum(img) : img.secs[i] \in Nat
  BY <1>1, ImageAssumption DEF SecNum
<1>3. LoopSecs(img) \in Nat /\ LoopSecs(img) <= SecNum(img)
  BY <1>2, ParamAssumption DEF LoopSecs, Lesser
<1>4. HdrLen(img) \in {32, 48}
  BY DEF HdrLen
<1>5. \A i \in 1..SecNum(img) + 1 : img.at[i] \in Nat
  BY <1>1, ImageAssumption
<1>6. QED
  BY <1>1, <1>2, <1>3, <1>4, <1>5, ImageAssumption

(* A chunk is between one byte and PartSize and ends inside its section.   *)
LEMMA ChunkBounds ==
    ASSUME TypeOK, LoopInv, InSection, img.secs[sec] # 0
    PROVE  /\ Chunk \in 1..PartSize
           /\ sec \in 1..SecNum(img)
           /\ off + Chunk <= img.secs[sec]
<1>1. sec \in 1..SecNum(img) /\ img.secs[sec] \in Nat \ {0} /\ off \in Nat
  BY ImageFacts DEF InSection, TypeOK
<1>2. off < img.secs[sec]
  BY <1>1 DEF InSection, LoopInv
<1>3. QED
  BY <1>1, <1>2, ParamAssumption DEF Chunk, Lesser

(* Appending a packet that starts where the others end keeps the tiling.   *)
LEMMA AppendPacket ==
    ASSUME NEW s \in Seq([at : Nat, n : Nat]), NEW p \in [at : Nat, n : Nat], s # <<>>
    PROVE  /\ Append(s, p) \in Seq([at : Nat, n : Nat])
           /\ Len(Append(s, p)) = Len(s) + 1 /\ Len(s) >= 1
           /\ \A k \in 1..Len(s) : Append(s, p)[k] = s[k]
           /\ Append(s, p)[Len(s) + 1] = p
  OBVIOUS

-----------------------------------------------------------------------------

(* The invariant holds initially. *)
LEMMA InitIInv == Init => IInv
<1> SUFFICES ASSUME Init PROVE IInv
  OBVIOUS
<1>1. TypeOK
  <2>1. img \in Images /\ SecNum(img) \in Nat
    BY ImageAssumption DEF Init, SecNum
  <2>2. 1 \in 1..SecNum(img) + 1 /\ 0 \in 0..Retries
    BY <2>1, ParamAssumption
  <2>3. <<>> \in Seq([at : Nat, n : Nat])
    OBVIOUS
  <2>4. QED
    BY <2>1, <2>2, <2>3 DEF Init, TypeOK
<1>2. QED
  BY <1>1, ParamAssumption
  DEF Init, IInv, AttemptInv, LoopInv, HeaderInv, Tiling, ReadsInsideImage,
      ReadyMeansAllSent, GivesUpLate

(* A failed attempt, wherever it failed, keeps the invariant.              *)
LEMMA NextAttemptIInv ==
    ASSUME IInv, NextAttempt, step \notin {"entry", "h2cPath", "done"}
    PROVE  IInv'
<1> USE ParamAssumption DEF IInv, NextAttempt, Return, wcpuVars
<1>1. TypeOK'
  BY DEF TypeOK, AttemptInv
<1>2. AttemptInv'
  BY DEF AttemptInv, TypeOK, GivesUpLate
<1>3. LoopInv' /\ HeaderInv' /\ Tiling' /\ ReadsInsideImage'
  BY DEF LoopInv, HeaderInv, Tiling, ReadsInsideImage, TypeOK
<1>4. ReadyMeansAllSent'
  BY DEF ReadyMeansAllSent, AttemptInv
<1>5. QED
  BY <1>1, <1>2, <1>3, <1>4

(* The header opens the list of packets.                                   *)
LEMMA HeaderSentIInv == ASSUME IInv, HeaderSent PROVE IInv'
<1> USE DEF IInv, HeaderSent, loopVars, outVars, wcpuVars
<1>1. sent' = <<[at |-> 0, n |-> HdrLen(img)]>> /\ HdrLen(img) \in {32, 48} /\ img' = img
  BY ImageFacts
<1>2. Len(sent') = 1 /\ sent'[1] = [at |-> 0, n |-> HdrLen(img)] /\ sent' # <<>>
  BY <1>1
<1>3. TypeOK'
  BY <1>1 DEF TypeOK
<1>4. AttemptInv' /\ LoopInv' /\ HeaderInv' /\ Tiling'
  <2>1. AttemptInv'
    BY DEF AttemptInv, GivesUpLate
  <2>2. LoopInv' /\ HeaderInv'
    BY <1>1, <1>2 DEF LoopInv, HeaderInv
  <2>3. Tiling'
    BY <1>2 DEF Tiling
  <2>4. QED
    BY <2>1, <2>2, <2>3
<1>5. ReadsInsideImage'
  <2>1. img.at[1] >= HdrLen(img) /\ img.at[1] \in Nat /\ 1 \in 1..SecNum(img) + 1
    BY ImageFacts
  <2>2. QED
    BY <1>1, <1>2, <2>1, ImageFacts DEF ReadsInsideImage, WellFormed
<1>6. ReadyMeansAllSent'
  BY DEF ReadyMeansAllSent, AttemptInv
<1>7. QED
  BY <1>3, <1>4, <1>5, <1>6

(* The parse of the header points the loop at the first section.           *)
LEMMA FwdlPathReadyIInv == ASSUME IInv, FwdlPathReady PROVE IInv'
<1> USE DEF IInv, FwdlPathReady, outVars, wcpuVars
<1>1. img' = img /\ sent' = sent /\ sec' = 1 /\ off' = 0 /\ base' = img.at[1]
  BY ImageFacts
<1>2. SecNum(img) \in Nat /\ LoopSecs(img) \in Nat /\ img.at[1] \in Nat
  BY ImageFacts
<1>3. TypeOK'
  BY <1>1, <1>2 DEF TypeOK
<1>4. LoopInv'
  <2>0. Len(sent) = 1
    BY DEF LoopInv
  <2>1. Reached' = base' + off'
    BY <1>1, <1>2, <2>0 DEF Reached
  <2>2. QED
    BY <1>1, <1>2, <2>1 DEF LoopInv
<1>5. AttemptInv' /\ HeaderInv' /\ Tiling' /\ ReadsInsideImage'
  BY <1>1
  DEF AttemptInv, HeaderInv, Tiling, GivesUpLate, ReadsInsideImage
<1>6. ReadyMeansAllSent'
  BY DEF ReadyMeansAllSent, AttemptInv
<1>7. QED
  BY <1>3, <1>4, <1>5, <1>6

(* Skipping an empty section moves no offset.                              *)
LEMMA SkipIInv == ASSUME IInv, SkipEmptySection PROVE IInv'
<1> USE DEF IInv, SkipEmptySection, outVars, wcpuVars
<1>1. sec \in 1..SecNum(img) /\ sec <= LoopSecs(img) /\ LoopSecs(img) \in Nat
  BY ImageFacts DEF InSection, TypeOK
<1>2. img.at[sec + 1] = img.at[sec] /\ off = 0
  <2>1. img.secs[sec] = 0 /\ off \in Nat
    BY DEF TypeOK
  <2>2. off = 0
    BY <1>1, <2>1 DEF InSection, LoopInv
  <2>3. img.at[sec] \in Nat /\ img.at[sec + 1] = img.at[sec] + img.secs[sec]
    BY <1>1, ImageFacts
  <2>4. QED
    BY <2>1, <2>2, <2>3
<1>3. TypeOK'
  BY <1>1, ImageFacts DEF TypeOK
<1>4. LoopInv'
  <2>1. Reached' = Reached
    BY DEF Reached
  <2>2. QED
    BY <1>1, <1>2, <2>1, ImageFacts DEF LoopInv, InSection, TypeOK
<1>5. AttemptInv' /\ HeaderInv' /\ Tiling' /\ ReadsInsideImage'
  BY DEF AttemptInv, HeaderInv, Tiling, GivesUpLate, ReadsInsideImage
<1>6. ReadyMeansAllSent'
  BY DEF ReadyMeansAllSent, AttemptInv, InSection
<1>7. QED
  BY <1>3, <1>4, <1>5, <1>6

(* An accepted chunk is the next tile.                                     *)
LEMMA ChunkSentIInv == ASSUME IInv, ChunkSent PROVE IInv'
<1> USE DEF IInv, outVars, wcpuVars
<1> DEFINE p == [at |-> base + off, n |-> Chunk]
<1>1. /\ Chunk \in 1..PartSize /\ Chunk \in Nat /\ off + Chunk <= img.secs[sec]
      /\ sec \in 1..SecNum(img) /\ off \in Nat /\ base \in Nat
  <2>1. /\ Chunk \in 1..PartSize /\ off + Chunk <= img.secs[sec]
        /\ sec \in 1..SecNum(img) /\ off \in Nat /\ base \in Nat
    BY ChunkBounds DEF ChunkSent, TypeOK
  <2>2. QED
    BY <2>1, ParamAssumption
<1>2. /\ sent # <<>> /\ base = img.at[sec] /\ Reached = base + off
      /\ sec <= LoopSecs(img)
  BY DEF ChunkSent, InSection, LoopInv
<1>3. /\ img.at[sec] \in Nat /\ img.secs[sec] \in Nat
      /\ img.at[sec + 1] = img.at[sec] + img.secs[sec]
      /\ LoopSecs(img) \in Nat /\ LoopSecs(img) <= SecNum(img) /\ SecNum(img) \in Nat
  BY <1>1, ImageFacts
<1>4. img' = img /\ sent' = Append(sent, p) /\ step' = step /\ step = "sections"
  BY DEF ChunkSent, InSection
<1>5. p \in [at : Nat, n : Nat] /\ sent \in Seq([at : Nat, n : Nat])
  BY <1>1, ParamAssumption DEF TypeOK
<1>6. /\ sent' \in Seq([at : Nat, n : Nat])
      /\ Len(sent') = Len(sent) + 1 /\ Len(sent) >= 1 /\ Len(sent) \in Nat
      /\ \A k \in 1..Len(sent) : sent'[k] = sent[k]
      /\ sent'[Len(sent) + 1] = p
  BY <1>2, <1>4, <1>5, AppendPacket
<1>7. /\ off' \in Nat /\ base' \in Nat /\ sec' \in 1..SecNum(img) + 1
      /\ sec' <= LoopSecs(img) + 1
      /\ base' = img.at[sec'] /\ base' + off' = base + off + Chunk
      /\ IF sec' <= LoopSecs(img) THEN off' = 0 \/ off' < img.secs[sec'] ELSE off' = 0
  <2>1. CASE off + Chunk < img.secs[sec]
    <3>1. off' = off + Chunk /\ sec' = sec /\ base' = base
      BY <2>1 DEF ChunkSent
    <3>2. off + Chunk \in Nat /\ base + (off + Chunk) = base + off + Chunk
      BY <1>1
    <3>3. sec \in 1..SecNum(img) + 1 /\ sec <= LoopSecs(img) + 1
      BY <1>1, <1>2, <1>3
    <3>4. QED
      BY <1>1, <1>2, <2>1, <3>1, <3>2, <3>3
  <2>2. CASE ~(off + Chunk < img.secs[sec])
    <3>1. off + Chunk = img.secs[sec]
      BY <1>1, <1>3, <2>2
    <3>2. off' = 0 /\ sec' = sec + 1 /\ base' = base + img.secs[sec]
      BY <2>2 DEF ChunkSent
    <3>3. base' = img.at[sec'] /\ base' \in Nat
      BY <1>2, <1>3, <3>2
    <3>4. base' + off' = base + off + Chunk
      BY <1>1, <1>2, <1>3, <3>1, <3>2
    <3>5. sec' \in 1..SecNum(img) + 1 /\ sec' <= LoopSecs(img) + 1
      BY <1>1, <1>2, <1>3, <3>2
    <3>6. QED
      BY <3>2, <3>3, <3>4, <3>5
  <2>3. QED
    BY <2>1, <2>2
<1>8. TypeOK'
  BY <1>4, <1>6, <1>7 DEF TypeOK, ChunkSent
<1>9. LoopInv'
  <2>1. Reached' = base + off + Chunk
    BY <1>6 DEF Reached
  <2>2. sent' # <<>>
    BY <1>6
  <2>3. LoopSecs(img)' = LoopSecs(img)
    BY <1>4
  <2>4. QED
    BY <1>4, <1>7, <2>1, <2>2, <2>3 DEF LoopInv
<1>10. Tiling'
  <2> SUFFICES ASSUME NEW k \in 2..Len(sent')
               PROVE  /\ sent'[k].n \in 1..PartSize
                      /\ sent'[k].at = IF k = 2 THEN img.at[1]
                                       ELSE sent'[k - 1].at + sent'[k - 1].n
    BY <1>4 DEF Tiling
  <2>1. CASE k <= Len(sent)
    <3>1. k \in 2..Len(sent) /\ k \in 1..Len(sent) /\ k - 1 \in 1..Len(sent)
      BY <1>6, <2>1
    <3>2. sent'[k] = sent[k] /\ sent'[k - 1] = sent[k - 1]
      BY <1>6, <3>1
    <3>3. QED
      BY <3>1, <3>2 DEF Tiling
  <2>2. CASE k = Len(sent) + 1
    <3>1. sent'[k].n = Chunk /\ sent'[k].at = Reached /\ sent'[k - 1] = sent[k - 1]
      BY <1>2, <1>6, <2>2
    <3>2. QED
      BY <1>1, <1>6, <2>2, <3>1 DEF Reached
  <2>3. QED
    BY <1>6, <2>1, <2>2
<1>11. ReadsInsideImage'
  <2> SUFFICES ASSUME WellFormed(img), NEW k \in 1..Len(sent')
               PROVE  sent'[k].at + sent'[k].n <= img.size
    BY <1>4 DEF ReadsInsideImage
  <2>1. CASE k <= Len(sent)
    BY <1>6, <2>1 DEF ReadsInsideImage
  <2>2. CASE k = Len(sent) + 1
    <3>1. sent'[k].at + sent'[k].n = base + off + Chunk
      BY <1>6, <2>2
    <3>2. img.at[sec + 1] <= img.size /\ img.size \in Nat
      BY <1>1, ImageFacts DEF WellFormed
    <3>3. base + off + Chunk <= img.at[sec + 1] /\ img.at[sec + 1] \in Nat
      <4>1. img.at[sec + 1] = base + img.secs[sec]
        BY <1>2, <1>3
      <4>2. base + off + Chunk <= base + img.secs[sec]
        BY <1>1, <1>3
      <4>3. QED
        BY <1>1, <1>3, <4>1, <4>2
    <3>4. base + off + Chunk \in Nat
      BY <1>1
    <3>5. QED
      BY <3>1, <3>2, <3>3, <3>4
  <2>3. QED
    BY <1>6, <2>1, <2>2
<1>12. HeaderInv'
  BY <1>2, <1>4, <1>6 DEF HeaderInv
<1>13. AttemptInv' /\ ReadyMeansAllSent'
  BY <1>4 DEF ChunkSent, AttemptInv, ReadyMeansAllSent, GivesUpLate
<1>14. QED
  BY <1>8, <1>9, <1>10, <1>11, <1>12, <1>13

(* The steps that send nothing and fail no attempt, and those of the WCPU. *)
LEMMA QuietIInv ==
    ASSUME IInv,
           CheckArgs \/ H2cPathPoll \/ SectionsDone \/ CheckReady \/ WcpuStep
           \/ UNCHANGED vars
    PROVE  IInv'
<1> USE DEF IInv, vars, loopVars, outVars, wcpuVars, Return
<1>1. /\ img' = img /\ sent' = sent /\ sec' = sec /\ off' = off /\ base' = base
      /\ retry' = retry
  BY DEF CheckArgs, H2cPathPoll, SectionsDone, CheckReady, WcpuStep
<1>2. TypeOK'
  BY <1>1
  DEF CheckArgs, H2cPathPoll, SectionsDone, CheckReady, WcpuStep, TypeOK
<1>3. Tiling' /\ ReadsInsideImage' /\ HeaderInv' /\ Reached' = Reached
  BY <1>1 DEF Tiling, ReadsInsideImage, HeaderInv, Reached
<1>4. LoopInv'
  <2>1. CASE SectionsDone
    <3>1. sec = LoopSecs(img) + 1 /\ off = 0 /\ base \in Nat
      <4>1. sec \in Nat /\ base \in Nat /\ LoopSecs(img) \in Nat
        BY ImageFacts DEF TypeOK
      <4>2. step = "sections" /\ sec > LoopSecs(img)
        BY <2>1 DEF SectionsDone
      <4>3. sec <= LoopSecs(img) + 1
        BY <4>2 DEF LoopInv
      <4>4. sec = LoopSecs(img) + 1
        BY <4>1, <4>2, <4>3
      <4>5. ~(sec <= LoopSecs(img))
        BY <4>1, <4>2
      <4>6. QED
        BY <4>1, <4>2, <4>4, <4>5 DEF LoopInv
    <3>2. Reached = img.at[LoopSecs(img) + 1]
      BY <2>1, <3>1 DEF SectionsDone, LoopInv
    <3>3. QED
      BY <1>1, <1>3, <2>1, <3>2 DEF SectionsDone, LoopInv
  <2>2. CASE CheckArgs \/ H2cPathPoll \/ CheckReady
    BY <1>1, <1>3, <2>2 DEF CheckArgs, H2cPathPoll, CheckReady, LoopInv
  <2>3. CASE WcpuStep \/ UNCHANGED vars
    BY <1>1, <1>3, <2>3 DEF WcpuStep, LoopInv
  <2>4. QED
    BY <2>1, <2>2, <2>3
<1>5. AttemptInv'
  BY <1>1
  DEF CheckArgs, H2cPathPoll, SectionsDone, CheckReady, WcpuStep, AttemptInv, GivesUpLate
<1>6. ReadyMeansAllSent'
  <2>1. CASE CheckReady
    BY <1>1, <1>3, <2>1 DEF CheckReady, ReadyMeansAllSent, LoopInv, HeaderInv
  <2>2. CASE CheckArgs \/ H2cPathPoll \/ SectionsDone
    BY <1>1, <2>2 DEF CheckArgs, H2cPathPoll, SectionsDone, ReadyMeansAllSent, AttemptInv
  <2>3. CASE WcpuStep \/ UNCHANGED vars
    BY <1>1, <1>3, <2>3 DEF WcpuStep, ReadyMeansAllSent
  <2>4. QED
    BY <2>1, <2>2, <2>3
<1>7. QED
  BY <1>2, <1>3, <1>4, <1>5, <1>6

(* Every step preserves the invariant.                                     *)
LEMMA NextIInv == IInv /\ [Next]_vars => IInv'
<1> SUFFICES ASSUME IInv, [Next]_vars PROVE IInv'
  OBVIOUS
<1>1. CASE HeaderFailed \/ FwdlPathTimeout \/ ChunkFailed \/ CheckTimeout
  BY <1>1, NextAttemptIInv
  DEF HeaderFailed, FwdlPathTimeout, ChunkFailed, CheckTimeout, InSection
<1>2. CASE HeaderSent
  BY <1>2, HeaderSentIInv
<1>3. CASE FwdlPathReady
  BY <1>3, FwdlPathReadyIInv
<1>4. CASE SkipEmptySection
  BY <1>4, SkipIInv
<1>5. CASE ChunkSent
  BY <1>5, ChunkSentIInv
<1>6. CASE CheckArgs \/ H2cPathPoll \/ SectionsDone \/ CheckReady \/ WcpuStep
           \/ UNCHANGED vars
  BY <1>6, QuietIInv
<1>7. QED
  BY <1>1, <1>2, <1>3, <1>4, <1>5, <1>6 DEF Next, Driver

(* The inductive invariant holds in every reachable state.                 *)
LEMMA SpecIInv == Spec => []IInv
  BY InitIInv, NextIInv, PTL DEF Spec

-----------------------------------------------------------------------------

(* Every variable keeps its type (fw.c:61-167).                            *)
THEOREM TypeCorrect == Spec => []TypeOK
  BY SpecIInv, PTL DEF IInv

(* The packets of an attempt tile the section data, for every image        *)
(* (fw.c:117-148).                                                         *)
THEOREM PacketsTile == Spec => []Tiling
  BY SpecIInv, PTL DEF IInv

(* FW_RDY only over a complete attempt (fw.c:139-157).                     *)
THEOREM ReadyIsComplete == Spec => []ReadyMeansAllSent
  BY SpecIInv, PTL DEF IInv

(* No read beyond the end of a well-formed image (fw.c:134-136).           *)
THEOREM NoReadPastEnd == Spec => []ReadsInsideImage
  BY SpecIInv, PTL DEF IInv

(* The function uses all its attempts before it fails (fw.c:78).           *)
THEOREM AttemptsExhausted == Spec => []GivesUpLate
<1>1. IInv => GivesUpLate
  BY DEF IInv, AttemptInv
<1>2. QED
  BY <1>1, SpecIInv, PTL

-----------------------------------------------------------------------------

Stage(s) ==
    IF s = "entry" THEN 0 ELSE IF s = "h2cPath" THEN 1 ELSE IF s = "header" THEN 2
    ELSE IF s = "fwdlPath" THEN 3 ELSE IF s = "sections" THEN 4
    ELSE IF s = "check" THEN 5 ELSE 6

(* An attempt more has failed, or the attempt is one stage further, or one *)
(* section, or one chunk.                                                  *)
Advances ==
    \/ retry' = retry + 1
    \/ retry' = retry /\ Stage(step') > Stage(step)
    \/ UNCHANGED <<retry, step>> /\ sec' = sec + 1
    \/ UNCHANGED <<retry, step, sec>> /\ off' > off

(* What bounds the loops: the attempts, the sections, the section's bytes. *)
LoopBounds ==
    /\ retry \in 0..Retries /\ step # "done" => retry < Retries
    /\ step = "sections" =>
          /\ sec \in 1..LoopSecs(img) + 1
          /\ sec <= LoopSecs(img) => off \in 0..img.secs[sec]

(* Nobody but the function itself moves it, and it never goes back.        *)
OnlyForward == [][IF Driver THEN Advances ELSE UNCHANGED <<step, loopVars>>]_vars

(* What every step of the driver gains is bounded, for every image and     *)
(* every answer of channel and chip: the three nested loops cannot go on   *)
(* for ever, and no failure starts an attempt anew without counting it     *)
(* (fw.c:78-165).                                                          *)
THEOREM DownloadAdvances == Spec => []LoopBounds /\ OnlyForward
<1>1. IInv => LoopBounds
  <2> SUFFICES ASSUME IInv PROVE LoopBounds
    OBVIOUS
  <2>1. retry \in 0..Retries /\ (step # "done" => retry < Retries)
    BY DEF IInv, TypeOK, AttemptInv
  <2>2. ASSUME step = "sections"
        PROVE  sec \in 1..LoopSecs(img) + 1
    BY <2>2, ImageFacts DEF IInv, TypeOK, LoopInv
  <2>3. ASSUME step = "sections", sec <= LoopSecs(img)
        PROVE  off \in 0..img.secs[sec]
    <3>1. sec \in 1..SecNum(img) /\ off \in Nat /\ (off = 0 \/ off < img.secs[sec])
      BY <2>3, ImageFacts DEF IInv, TypeOK, LoopInv
    <3>2. img.secs[sec] \in Nat
      BY <3>1, ImageFacts DEF IInv
    <3>3. QED
      BY <3>1, <3>2
  <2>4. QED
    BY <2>1, <2>2, <2>3 DEF LoopBounds
<1>2. IInv /\ [Next]_vars => [IF Driver THEN Advances ELSE UNCHANGED <<step, loopVars>>]_vars
  <2> SUFFICES ASSUME IInv, Next
               PROVE  IF Driver THEN Advances ELSE UNCHANGED <<step, loopVars>>
    OBVIOUS
  <2>1. CASE Driver
    <3> SUFFICES Advances
      BY <2>1
    <3>1. CASE HeaderFailed \/ FwdlPathTimeout \/ ChunkFailed \/ CheckTimeout
      BY <3>1
      DEF HeaderFailed, FwdlPathTimeout, ChunkFailed, CheckTimeout, NextAttempt, Advances
    <3>2. CASE CheckArgs \/ H2cPathPoll
      BY <3>2 DEF CheckArgs, H2cPathPoll, Return, loopVars, Advances, Stage
    <3>3. CASE HeaderSent \/ FwdlPathReady
      BY <3>3 DEF HeaderSent, FwdlPathReady, loopVars, Advances, Stage
    <3>4. CASE SectionsDone \/ CheckReady
      BY <3>4 DEF SectionsDone, CheckReady, Return, loopVars, Advances, Stage
    <3>5. CASE SkipEmptySection
      BY <3>5 DEF SkipEmptySection, Advances
    <3>6. CASE ChunkSent
      <4>1. Chunk \in 1..PartSize /\ off \in Nat
        BY <3>6, ChunkBounds DEF ChunkSent, IInv, TypeOK
      <4>2. off + Chunk > off
        BY <4>1, ParamAssumption
      <4>3. \/ off' = off + Chunk /\ sec' = sec
            \/ sec' = sec + 1
        BY <3>6 DEF ChunkSent
      <4>4. UNCHANGED <<retry, step>>
        BY <3>6 DEF ChunkSent
      <4>5. QED
        BY <4>2, <4>3, <4>4 DEF Advances
    <3>7. QED
      BY <2>1, <3>1, <3>2, <3>3, <3>4, <3>5, <3>6 DEF Driver
  <2>2. CASE ~Driver
    BY <2>2 DEF Next, WcpuStep
  <2>3. QED
    BY <2>1, <2>2
<1>3. QED
  BY <1>1, <1>2, SpecIInv, PTL DEF Spec, OnlyForward

StopsAtCap ==
    result = "ok" /\ SecNum(img) > SecCap => Reached = img.at[SecCap + 1]

(* With more sections than FWDL_SECTION_MAX_NUM, success means that the    *)
(* packets reach to the start of the first section beyond the cap and no   *)
(* further, whatever the image (fw.c:120; src/README.md:8 counts 26).      *)
THEOREM SuccessStopsAtCap == Spec => []StopsAtCap
<1>1. IInv => StopsAtCap
  <2> SUFFICES ASSUME IInv, result = "ok", SecNum(img) > SecCap
               PROVE  Reached = img.at[SecCap + 1]
    BY DEF StopsAtCap
  <2>1. LoopSecs(img) = SecCap
    BY ImageFacts, ParamAssumption DEF IInv, LoopSecs, Lesser
  <2>2. QED
    BY <2>1 DEF IInv, AttemptInv, ReadyMeansAllSent
<1>2. QED
  BY <1>1, SpecIInv, PTL
=============================================================================
