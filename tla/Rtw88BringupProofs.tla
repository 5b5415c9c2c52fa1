------------------------- MODULE Rtw88BringupProofs --------------------------
(***************************************************************************)
(* Proofs about Rtw88Bringup for any chips, images, section headers,       *)
(* channels, poll budgets and number of calls.                             *)
(***************************************************************************)
EXTENDS Rtw88Bringup, SequenceTheorems, TLAPS

(* The type invariant in parts.                                            *)
CallOK ==
    /\ chip \in Chips /\ size \in Sizes
    /\ at \in {"idle", "recursing", "power_on", "llt", "walk", "data", "trigger", "fw_ready"}
    /\ calls \in 0..MaxCalls /\ polls \in 0..PollBudget

BoolOK ==
    /\ asked \in BOOLEAN /\ powered \in BOOLEAN /\ autoLlt \in BOOLEAN
    /\ enTaken \in BOOLEAN /\ fwUp \in BOOLEAN /\ cck \in BOOLEAN

RegOK ==
    /\ cr \subseteq LowByte \cup {"SEC"}
    /\ rcr \subseteq {"PHYSTS", "FCS", "AM", "AB", "AAP"}
    /\ ctrl \subseteq Ready \cup {"EN", "CLK", "RDY"}

MacOK == mem \in Bytes /\ fifo \in Fifos

ChanOK ==
    /\ hal \in Tuned /\ dataSc \in U8 /\ rfmod \subseteq {7, 8}

(* Past the last section written.                                          *)
Reached == IF written = <<>> THEN FileHdr ELSE written[Len(written)].past

(* The walk stays inside the image and never falls back behind a section.  *)
WalkInv ==
    /\ off \in Nat /\ remain \in Nat /\ sec \in U16 /\ written \in Seq(Ranges)
    /\ SectionsApart
    /\ at = "walk" => off >= Reached
    /\ at = "data" => off >= Reached + SecHdr /\ sec <= remain

Downloading == at \in {"walk", "data", "trigger", "fw_ready"}

(* The bit the driver has set is there until the chip takes it.            *)
EnInv ==
    /\ ReadyNeedsChip
    /\ Downloading => ~fwUp /\ ("EN" \in ctrl \/ enTaken)

(* Only a chip that has power has anything in REG_CR.                      *)
PowerInv ==
    /\ InitialisedWasPowered
    /\ cr # {} \/ at = "llt" => powered

IInv ==
    /\ CallOK /\ BoolOK /\ RegOK /\ MacOK /\ ChanOK
    /\ WalkInv /\ EnInv /\ PowerInv /\ BoundariesHalfAgree /\ ChannelAsSet

-----------------------------------------------------------------------------

LEMMA TypeParts ==
    CallOK /\ BoolOK /\ RegOK /\ MacOK /\ ChanOK /\ WalkInv => TypeOK
<1> SUFFICES ASSUME CallOK, BoolOK, RegOK, MacOK, ChanOK, WalkInv PROVE TypeOK
  OBVIOUS
<1>1. /\ off \in Nat /\ remain \in Nat /\ sec \in U16 /\ written \in Seq(Ranges)
  BY Zenon DEF WalkInv
<1>2. QED
  BY <1>1, Zenon DEF CallOK, BoolOK, RegOK, MacOK, ChanOK, TypeOK

LEMMA Quotient == ASSUME NEW a \in Nat, NEW b \in Nat \ {0} PROVE a \div b \in Nat
OBVIOUS

LEMMA SpecTypes ==
  ASSUME NEW c \in Chips
  PROVE  /\ TotalPages(c) \in Nat
         /\ Boundary(c) \in U16
<1>1. /\ Spec88[c].txff \in Nat /\ Spec88[c].page \in Nat \ {0} /\ Spec88[c].rsvd \in Nat
  BY ChipAssumption
<1>2. TotalPages(c) \in Nat
  BY <1>1, Quotient DEF TotalPages
<1>3. ASSUME NEW x \in Int PROVE x % 65536 \in U16
  BY DEF U16
<1>4. QED
  BY <1>1, <1>2, <1>3 DEF Boundary

(* The bytes of a value, and the writes of one and of two.                 *)
Lo(v) == v % 256
Hi(v) == (v \div 256) % 256
Places == {TRXFF, TRXFF + 1, BCNQ, MGQ}

LEMMA LoHi ==
  ASSUME NEW v \in Nat
  PROVE  Lo(v) \in U8 /\ Hi(v) \in U8
<1>1. v \div 256 \in Nat
  OBVIOUS
<1>2. \A u \in Nat : u % 256 \in U8
  BY DEF U8
<1>3. QED
  BY <1>1, <1>2 DEF Lo, Hi

LEMMA WriteOne ==
  ASSUME NEW m \in Bytes, NEW a \in Places, NEW v \in Nat
  PROVE  /\ Write8(m, a, v) \in Bytes /\ Write8(m, a, v)[a] = Lo(v)
         /\ \A x \in Places \ {a} : Write8(m, a, v)[x] = m[x]
<1>1. Write8(m, a, v) = [m EXCEPT ![a] = Lo(v)]
  BY DEF Write8, Lo
<1>2. QED
  BY <1>1, LoHi DEF Bytes, Places

LEMMA WriteTwo ==
  ASSUME NEW m \in Bytes, NEW a \in {TRXFF, BCNQ}, NEW v \in Nat
  PROVE  /\ Write16(m, a, v) \in Bytes
         /\ Write16(m, a, v)[a] = Lo(v) /\ Write16(m, a, v)[a + 1] = Hi(v)
         /\ \A x \in Places \ {a, a + 1} : Write16(m, a, v)[x] = m[x]
<1>1. Write16(m, a, v) = [m EXCEPT ![a] = Lo(v), ![a + 1] = Hi(v)]
  BY DEF Write16, Lo, Hi
<1>2. a \in Places /\ a + 1 \in Places /\ a + 1 # a
  BY DEF Places, TRXFF, BCNQ, MGQ
<1>3. QED
  BY <1>1, <1>2, LoHi DEF Bytes, Places

(* What the three writes leave in the four bytes.                          *)
LEMMA BoundaryBytes ==
  ASSUME NEW m \in Bytes, NEW b \in U16
  PROVE  /\ Boundaries(m, b) \in Bytes
         /\ Read16(Boundaries(m, b), TRXFF) = b % 4096
         /\ Read16(Boundaries(m, b), BCNQ) = 257 * (b % 256)
         /\ Boundaries(m, b)[MGQ] = b % 256
<1> DEFINE t  == b % 4096
           m1 == Write16(m, TRXFF, t)
           m2 == Write16(m1, BCNQ, t)
           m3 == Write8(m2, MGQ, b)
<1>1. b \in Nat /\ t \in 0..4095 /\ Lo(b) \in 0..255
  BY DEF U16, Lo
<1>2. Lo(t) = Lo(b)
  BY <1>1 DEF Lo
<1>3. Boundaries(m, b) = m3
  BY DEF Boundaries
<1> HIDE DEF t
<1>4. t \in Nat /\ t = Lo(t) + 256 * Hi(t)
  <2>1. t = (t % 256) + 256 * (t \div 256) /\ t \div 256 \in 0..15
    BY <1>1
  <2>2. \A u \in 0..15 : u % 256 = u
    OBVIOUS
  <2>3. QED
    BY <1>1, <2>1, <2>2 DEF Lo, Hi
<1>5. m1 \in Bytes /\ m1[TRXFF] = Lo(t) /\ m1[TRXFF + 1] = Hi(t)
  BY <1>4, WriteTwo
<1> HIDE DEF m1
<1>6. /\ m2 \in Bytes /\ m2[BCNQ] = Lo(t)
      /\ m2[TRXFF] = m1[TRXFF] /\ m2[TRXFF + 1] = m1[TRXFF + 1]
  <2>1. TRXFF \in Places \ {BCNQ, BCNQ + 1} /\ TRXFF + 1 \in Places \ {BCNQ, BCNQ + 1}
    BY DEF Places, TRXFF, BCNQ, MGQ
  <2>2. /\ m2 \in Bytes /\ m2[BCNQ] = Lo(t)
        /\ \A x \in Places \ {BCNQ, BCNQ + 1} : m2[x] = m1[x]
    BY <1>4, <1>5, WriteTwo
  <2>3. QED
    BY <2>1, <2>2, Zenon
<1> HIDE DEF m2
<1>7. /\ m3 \in Bytes /\ m3[MGQ] = Lo(b) /\ m3[BCNQ] = m2[BCNQ]
      /\ m3[TRXFF] = m2[TRXFF] /\ m3[TRXFF + 1] = m2[TRXFF + 1]
  <2>1. MGQ \in Places /\ {TRXFF, TRXFF + 1, BCNQ} \subseteq Places \ {MGQ}
    BY DEF Places, TRXFF, BCNQ, MGQ
  <2>2. /\ m3 \in Bytes /\ m3[MGQ] = Lo(b)
        /\ \A x \in Places \ {MGQ} : m3[x] = m2[x]
    BY <1>1, <1>6, <2>1, WriteOne
  <2>3. TRXFF \in Places \ {MGQ} /\ TRXFF + 1 \in Places \ {MGQ} /\ BCNQ \in Places \ {MGQ}
    BY <2>1
  <2>4. QED
    BY <2>2, <2>3, Zenon
<1> HIDE DEF m3
<1>8. Read16(m3, TRXFF) = t
  BY <1>4, <1>5, <1>6, <1>7 DEF Read16
<1>9. Read16(m3, BCNQ) = 257 * Lo(b)
  <2>1. m3[BCNQ] = Lo(b) /\ m3[BCNQ + 1] = Lo(b)
    BY <1>2, <1>6, <1>7 DEF BCNQ, MGQ
  <2>2. QED
    BY <1>1, <2>1 DEF Read16
<1>10. QED
  BY <1>3, <1>7, <1>8, <1>9 DEF t, Lo

LEMMA InitInv == Init => IInv
<1> SUFFICES ASSUME Init PROVE IInv
  OBVIOUS
<1>1. BoolOK
  BY Zenon DEF Init, BoolOK
<1>2. CallOK /\ RegOK
  BY BoundAssumption DEF Init, CallOK, RegOK, LowByte
<1>3. MacOK /\ BoundariesHalfAgree
  BY DEF Init, MacOK, BoundariesHalfAgree, NoFifo, Bytes, Fifos, U8, U16
<1>4. ChanOK /\ ChannelAsSet
  BY DEF Init, ChanOK, ChannelAsSet, Tuned, Widths, U8
<1>5. WalkInv
  <2>1. written = <<>> /\ <<>> \in Seq(Ranges) /\ Len(<<>>) = 0
    BY EmptySeq DEF Init
  <2>2. QED
    BY <2>1 DEF Init, WalkInv, SectionsApart, U16
<1>6. EnInv /\ PowerInv
  BY DEF Init, EnInv, ReadyNeedsChip, Downloading, PowerInv, InitialisedWasPowered, NoFifo
<1>7. QED
  BY <1>1, <1>2, <1>3, <1>4, <1>5, <1>6 DEF IInv

LEMMA StepKinds ==
  ASSUME [Next]_vars
  PROVE  \/ MacPowerOn \/ MacEnable \/ LltDone \/ MacPostinit \/ PowerCall
         \/ FwBegin \/ NoFirmware \/ SectionHeader \/ WalkEnds \/ Section \/ Trigger \/ FwReady
         \/ PollAgain \/ PollTimeout
         \/ (\E ch \in Channels, bw \in Widths, p \in Primaries : SetChannel(ch, bw, p))
         \/ ChipAnswers \/ ChipFillsLlt \/ ChipReports \/ ChipTakesEn
         \/ UNCHANGED vars
BY Zenon DEF Next, Driver, Mac, Firmware, Chip

LEMMA CallStep ==
  ASSUME CallOK, [Next]_vars
  PROVE  CallOK'
<1> USE DEF CallOK, Call, Return, Go, Wait, callVars
<1>1. CASE MacPowerOn \/ MacEnable
  BY <1>1, BoundAssumption DEF MacPowerOn, MacEnable
<1>2. CASE LltDone \/ MacPostinit \/ PowerCall
  BY <1>2, BoundAssumption DEF LltDone, MacPostinit, PowerCall
<1>3. CASE FwBegin \/ NoFirmware
  BY <1>3, BoundAssumption DEF FwBegin, NoFirmware
<1>4. CASE SectionHeader \/ WalkEnds
  BY <1>4, BoundAssumption DEF SectionHeader, WalkEnds, EnterSection, LeaveWalk
<1>5. CASE Section \/ Trigger \/ FwReady
  BY <1>5, BoundAssumption DEF Section, Trigger, FwReady
<1>6. CASE PollAgain \/ PollTimeout
  BY <1>6, BoundAssumption DEF PollAgain, PollTimeout
<1>7. CASE (\E ch \in Channels, bw \in Widths, p \in Primaries : SetChannel(ch, bw, p))
  BY <1>7, BoundAssumption DEF SetChannel
<1>8. CASE ChipAnswers \/ ChipFillsLlt \/ ChipReports \/ ChipTakesEn
  BY <1>8, BoundAssumption DEF ChipAnswers, ChipFillsLlt, ChipReports, ChipTakesEn
<1>9. CASE UNCHANGED vars
  BY <1>9 DEF vars
<1>10. QED
  BY <1>1, <1>2, <1>3, <1>4, <1>5, <1>6, <1>7, <1>8, <1>9, StepKinds

LEMMA BoolKept ==
  ASSUME BoolOK, UNCHANGED <<asked, powered, autoLlt, enTaken, fwUp, cck>>
  PROVE  BoolOK'
BY Zenon DEF BoolOK

LEMMA BoolStep ==
  ASSUME BoolOK, [Next]_vars
  PROVE  BoolOK'
<1> USE DEF macVars, ctrlVars, chanVars
<1>1. CASE MacPowerOn \/ MacEnable
  BY <1>1, Zenon DEF MacPowerOn, MacEnable, BoolOK
<1>2. CASE LltDone \/ MacPostinit \/ PowerCall
  <2>1. UNCHANGED <<asked, powered, autoLlt, enTaken, fwUp, cck>>
    BY <1>2, SMT DEF LltDone, MacPostinit, PowerCall
  <2>2. QED
    BY <2>1, BoolKept
<1>3. CASE FwBegin \/ NoFirmware
  BY <1>3, Zenon DEF FwBegin, NoFirmware, BoolOK, WriteCtrl
<1>4. CASE SectionHeader \/ WalkEnds
  BY <1>4, Zenon DEF SectionHeader, WalkEnds, EnterSection, LeaveWalk, BoolOK
<1>5. CASE Section \/ Trigger \/ FwReady
  BY <1>5, Zenon DEF Section, Trigger, FwReady, BoolOK, WriteCtrl
<1>6. CASE PollAgain \/ PollTimeout
  BY <1>6, Zenon DEF PollAgain, PollTimeout, BoolOK
<1>7. ASSUME NEW ch \in Channels, NEW bw \in Widths, NEW p \in Primaries, SetChannel(ch, bw, p)
      PROVE  BoolOK'
  <2>1. UNCHANGED <<asked, powered, autoLlt, enTaken, fwUp>>
    BY <1>7, SMT DEF SetChannel
  <2>2. cck' = (ch > 14) \/ cck' = cck
    BY <1>7, Zenon DEF SetChannel, SetChannelMac
  <2>3. (ch > 14) \in BOOLEAN
    BY SMT
  <2>4. QED
    BY <2>1, <2>2, <2>3, Zenon DEF BoolOK
<1>8. CASE ChipAnswers \/ ChipFillsLlt \/ ChipReports \/ ChipTakesEn
  BY <1>8, Zenon DEF ChipAnswers, ChipFillsLlt, ChipReports, ChipTakesEn, BoolOK
<1>9. CASE UNCHANGED vars
  BY <1>9, Zenon DEF vars, BoolOK
<1>10. QED
  BY <1>1, <1>2, <1>3, <1>4, <1>5, <1>6, <1>7, <1>8, <1>9, StepKinds, Zenon

LEMMA RegStep ==
  ASSUME RegOK, [Next]_vars
  PROVE  RegOK'
<1> USE DEF RegOK, macVars, ctrlVars
<1>1. CASE MacPowerOn \/ MacEnable
  BY <1>1 DEF MacPowerOn, MacEnable, LowByte
<1>2. CASE LltDone \/ MacPostinit \/ PowerCall
  <2>1. CASE LltDone \/ PowerCall
    <3>1. UNCHANGED <<cr, rcr, ctrl>>
      BY <2>1, SMT DEF LltDone, PowerCall
    <3>2. QED
      BY <3>1, Zenon
  <2>2. CASE MacPostinit
    <3>1. UNCHANGED <<cr, ctrl>> /\ rcr' = rcr \cup {"PHYSTS", "FCS", "AM", "AB", "AAP"}
      BY <2>2, SMT DEF MacPostinit
    <3>2. QED
      BY <3>1, Zenon
  <2>3. QED
    BY <1>2, <2>1, <2>2
<1>3. CASE FwBegin \/ NoFirmware
  BY <1>3 DEF FwBegin, NoFirmware, WriteCtrl
<1>4. CASE SectionHeader \/ WalkEnds
  BY <1>4 DEF SectionHeader, WalkEnds, EnterSection, LeaveWalk
<1>5. CASE Section \/ Trigger \/ FwReady
  BY <1>5 DEF Section, Trigger, FwReady, WriteCtrl
<1>6. CASE PollAgain \/ PollTimeout
  BY <1>6 DEF PollAgain, PollTimeout
<1>7. CASE (\E ch \in Channels, bw \in Widths, p \in Primaries : SetChannel(ch, bw, p))
  BY <1>7 DEF SetChannel
<1>8. CASE ChipAnswers \/ ChipFillsLlt \/ ChipReports \/ ChipTakesEn
  BY <1>8 DEF ChipAnswers, ChipFillsLlt, ChipReports, ChipTakesEn, LowByte
<1>9. CASE UNCHANGED vars
  BY <1>9 DEF vars
<1>10. QED
  BY <1>1, <1>2, <1>3, <1>4, <1>5, <1>6, <1>7, <1>8, <1>9, StepKinds

(* rtw_llt_init writes the boundaries and what dev->fifo says of them       *)
(* together.                                                               *)
LEMMA MacStep ==
  ASSUME CallOK, MacOK, BoundariesHalfAgree, [Next]_vars
  PROVE  MacOK' /\ BoundariesHalfAgree'
<1> USE DEF MacOK, BoundariesHalfAgree, macVars
<1>1. CASE MacPowerOn \/ MacEnable
  BY <1>1 DEF MacPowerOn, MacEnable
<1>2. CASE LltDone \/ MacPostinit \/ PowerCall
  <2>1. CASE LltDone
    <3>1. Boundary(chip) \in U16 /\ TotalPages(chip) % 65536 \in U16
      <4>1. ASSUME NEW n \in Int PROVE n % 65536 \in U16
        BY DEF U16
      <4>2. QED
        BY <4>1, SpecTypes DEF CallOK
    <3>2. mem' = Boundaries(mem, Boundary(chip)) /\ fifo'.rsvd_boundary = Boundary(chip)
      BY <2>1 DEF LltDone
    <3>3. fifo' \in Fifos
      BY <2>1, <3>1 DEF LltDone, Fifos
    <3>4. QED
      BY <3>1, <3>2, <3>3, BoundaryBytes
  <2>2. CASE MacPostinit \/ PowerCall
    BY <2>2 DEF MacPostinit, PowerCall
  <2>3. QED
    BY <1>2, <2>1, <2>2
<1>3. CASE FwBegin \/ NoFirmware
  BY <1>3 DEF FwBegin, NoFirmware
<1>4. CASE SectionHeader \/ WalkEnds
  BY <1>4 DEF SectionHeader, WalkEnds, EnterSection, LeaveWalk
<1>5. CASE Section \/ Trigger \/ FwReady
  BY <1>5 DEF Section, Trigger, FwReady
<1>6. CASE PollAgain \/ PollTimeout
  BY <1>6 DEF PollAgain, PollTimeout
<1>7. CASE (\E ch \in Channels, bw \in Widths, p \in Primaries : SetChannel(ch, bw, p))
  BY <1>7 DEF SetChannel
<1>8. CASE ChipAnswers \/ ChipFillsLlt \/ ChipReports \/ ChipTakesEn
  BY <1>8 DEF ChipAnswers, ChipFillsLlt, ChipReports, ChipTakesEn
<1>9. CASE UNCHANGED vars
  BY <1>9 DEF vars
<1>10. QED
  BY <1>1, <1>2, <1>3, <1>4, <1>5, <1>6, <1>7, <1>8, <1>9, StepKinds

LEMMA SubChannelRange ==
  ASSUME NEW bw \in Widths, NEW p \in Primaries
  PROVE  /\ SubChannels(bw, p) \in U8
         /\ SubChannels(bw, p) >= 16 <=> bw = 2
BY ChannelAssumption DEF SubChannels, U8, Widths

LEMMA ChannelKept ==
  ASSUME ChanOK, ChannelAsSet, UNCHANGED <<chip, chanVars>>
  PROVE  ChanOK' /\ ChannelAsSet'
<1>1. UNCHANGED <<chip, hal, dataSc, rfmod, cck>>
  BY DEF chanVars
<1>2. QED
  BY <1>1, Zenon DEF ChanOK, ChannelAsSet

(* One call sets all of it; the operation that does nothing leaves all of  *)
(* it.                                                                     *)
LEMMA ChannelStep ==
  ASSUME ChanOK, ChannelAsSet, [Next]_vars
  PROVE  ChanOK' /\ ChannelAsSet'
<1> USE DEF chanVars
<1>1. CASE MacPowerOn \/ MacEnable
  BY <1>1, ChannelKept DEF MacPowerOn, MacEnable
<1>2. CASE LltDone \/ MacPostinit \/ PowerCall
  BY <1>2, ChannelKept DEF LltDone, MacPostinit, PowerCall
<1>3. CASE FwBegin \/ NoFirmware
  BY <1>3, ChannelKept DEF FwBegin, NoFirmware
<1>4. CASE SectionHeader \/ WalkEnds
  BY <1>4, ChannelKept DEF SectionHeader, WalkEnds, EnterSection, LeaveWalk
<1>5. CASE Section \/ Trigger \/ FwReady
  BY <1>5, ChannelKept DEF Section, Trigger, FwReady
<1>6. CASE PollAgain \/ PollTimeout
  BY <1>6, ChannelKept DEF PollAgain, PollTimeout
<1>7. ASSUME NEW ch \in Channels, NEW bw \in Widths, NEW p \in Primaries, SetChannel(ch, bw, p)
      PROVE  ChanOK' /\ ChannelAsSet'
  <2>1. /\ hal' = [ch |-> ch, bw |-> bw] /\ chip' = chip
        /\ ch # 0 /\ hal' \in Tuned
    BY <1>7, ChannelAssumption DEF SetChannel, Tuned
  <2>2. CASE Spec88[chip].programs
    <3>1. SetChannelMac(ch, bw, p)
      BY <1>7, <2>2 DEF SetChannel
    <3>2. dataSc' \in U8 /\ (dataSc' >= 16 <=> bw = 2)
      BY <3>1, SubChannelRange DEF SetChannelMac
    <3>3. rfmod' = ModeBits(bw)
      BY <3>1 DEF SetChannelMac, ChanOK
    <3>4. cck' <=> ch > 14
      BY <3>1 DEF SetChannelMac
    <3>5. ModeBits(bw) \subseteq {7, 8}
      BY DEF ModeBits
    <3>6. QED
      BY <2>1, <2>2, <3>2, <3>3, <3>4, <3>5 DEF ChanOK, ChannelAsSet
  <2>3. CASE ~ Spec88[chip].programs
    BY <1>7, <2>1, <2>3 DEF SetChannel, ChanOK, ChannelAsSet
  <2>4. QED
    BY <2>2, <2>3
<1>8. CASE ChipAnswers \/ ChipFillsLlt \/ ChipReports \/ ChipTakesEn
  BY <1>8, ChannelKept DEF ChipAnswers, ChipFillsLlt, ChipReports, ChipTakesEn
<1>9. CASE UNCHANGED vars
  BY <1>9, ChannelKept DEF vars
<1>10. QED
  BY <1>1, <1>2, <1>3, <1>4, <1>5, <1>6, <1>7, <1>8, <1>9, StepKinds

(* What the poll of REG_CR sees before the driver has written there is the  *)
(* chip's.                                                                 *)
LEMMA PowerStep ==
  ASSUME PowerInv, [Next]_vars
  PROVE  PowerInv'
<1> USE DEF PowerInv, InitialisedWasPowered, Call, Return, Go, Wait, callVars, macVars
<1>1. CASE MacPowerOn \/ MacEnable
  BY <1>1 DEF MacPowerOn, MacEnable, Seen
<1>2. CASE LltDone \/ MacPostinit \/ PowerCall
  BY <1>2 DEF LltDone, MacPostinit, PowerCall, NoFifo
<1>3. CASE FwBegin \/ NoFirmware
  BY <1>3 DEF FwBegin, NoFirmware
<1>4. CASE SectionHeader \/ WalkEnds
  BY <1>4 DEF SectionHeader, WalkEnds, EnterSection, LeaveWalk
<1>5. CASE Section \/ Trigger \/ FwReady
  BY <1>5 DEF Section, Trigger, FwReady
<1>6. CASE PollAgain \/ PollTimeout
  BY <1>6 DEF PollAgain, PollTimeout
<1>7. CASE (\E ch \in Channels, bw \in Widths, p \in Primaries : SetChannel(ch, bw, p))
  BY <1>7 DEF SetChannel
<1>8. CASE ChipAnswers \/ ChipFillsLlt \/ ChipReports \/ ChipTakesEn
  BY <1>8 DEF ChipAnswers, ChipFillsLlt, ChipReports, ChipTakesEn
<1>9. CASE UNCHANGED vars
  BY <1>9 DEF vars
<1>10. QED
  BY <1>1, <1>2, <1>3, <1>4, <1>5, <1>6, <1>7, <1>8, <1>9, StepKinds

(* The driver sets BIT_MCUFWDL_EN and waits for a word without it.          *)
LEMMA EnStep ==
  ASSUME EnInv, [Next]_vars
  PROVE  EnInv'
<1> USE DEF EnInv, ReadyNeedsChip, Downloading, Call, Return, Go, Wait, callVars, ctrlVars
<1>1. CASE MacPowerOn \/ MacEnable
  BY <1>1 DEF MacPowerOn, MacEnable
<1>2. CASE LltDone \/ MacPostinit \/ PowerCall
  BY <1>2 DEF LltDone, MacPostinit, PowerCall
<1>3. CASE FwBegin \/ NoFirmware
  BY <1>3 DEF FwBegin, NoFirmware, WriteCtrl
<1>4. CASE SectionHeader \/ WalkEnds
  BY <1>4 DEF SectionHeader, WalkEnds, EnterSection, LeaveWalk
<1>5. CASE Section \/ Trigger \/ FwReady
  <2>1. CASE Section \/ Trigger
    BY <2>1 DEF Section, Trigger, WriteCtrl
  <2>2. CASE FwReady
    <3>1. "EN" \notin ctrl
      BY <2>2 DEF FwReady, Seen, FirmwareReady, Ready
    <3>2. QED
      BY <2>2, <3>1 DEF FwReady
  <2>3. QED
    BY <1>5, <2>1, <2>2
<1>6. CASE PollAgain \/ PollTimeout
  BY <1>6 DEF PollAgain, PollTimeout, Polling
<1>7. CASE (\E ch \in Channels, bw \in Widths, p \in Primaries : SetChannel(ch, bw, p))
  BY <1>7 DEF SetChannel
<1>8. CASE ChipAnswers \/ ChipFillsLlt \/ ChipReports \/ ChipTakesEn
  BY <1>8 DEF ChipAnswers, ChipFillsLlt, ChipReports, ChipTakesEn
<1>9. CASE UNCHANGED vars
  BY <1>9 DEF vars
<1>10. QED
  BY <1>1, <1>2, <1>3, <1>4, <1>5, <1>6, <1>7, <1>8, <1>9, StepKinds

(* The steps that touch no section.                                        *)
LEMMA WalkKept ==
  ASSUME WalkInv, UNCHANGED <<size, off, remain, sec, written>>,
         at' = at \/ at' \notin {"walk", "data"}
  PROVE  WalkInv'
BY Zenon DEF WalkInv, SectionsApart, Reached

(* The walk is over, or begins anew.                                       *)
LEMMA WalkFresh ==
  ASSUME size' \in Nat, written' = <<>>, sec' \in U16, off' \in Nat, remain' \in Nat,
         at' = "walk" => off' = FileHdr /\ off' + remain' = size', at' # "data"
  PROVE  WalkInv'
<1>1. written' \in Seq(Ranges) /\ Len(written') = 0
  BY EmptySeq
<1>2. \A i \in 1..Len(written') : FALSE
  BY <1>1
<1>3. at' \in {"walk", "data"} => off' + remain' = size'
  OBVIOUS
<1>4. SectionsApart'
  BY <1>2, <1>3, Zenon DEF SectionsApart
<1>5. Reached' = FileHdr
  BY DEF Reached
<1>6. at' = "walk" => off' >= Reached'
  BY <1>5 DEF FileHdr
<1>7. QED
  BY <1>1, <1>4, <1>6, Zenon DEF WalkInv

LEMMA SizesNat ==
  /\ \A s \in Sizes : s \in Nat
  /\ \A s \in SecSizes : s \in U16 /\ s \in Nat
BY SizeAssumption, SectionAssumption DEF U16

(* What the walk knows, in one place.                                      *)
LEMMA WalkFacts ==
  ASSUME CallOK, WalkInv
  PROVE  /\ off \in Nat /\ remain \in Nat /\ sec \in U16 /\ sec \in Nat
         /\ written \in Seq(Ranges) /\ size \in Nat /\ Reached \in Nat
<1>1. size \in Nat
  BY SizesNat, Zenon DEF CallOK
<1>2. off \in Nat /\ remain \in Nat /\ sec \in U16 /\ written \in Seq(Ranges)
  BY Zenon DEF WalkInv
<1>3. sec \in Nat
  BY <1>2 DEF U16
<1>4. Reached \in Nat
  <2>1. CASE written = <<>>
    BY <2>1 DEF Reached, FileHdr
  <2>2. CASE written # <<>>
    <3>1. Len(written) \in 1..Len(written)
      BY <1>2, <2>2
    <3>2. written[Len(written)] \in Ranges
      BY <1>2, <3>1
    <3>3. QED
      BY <2>2, <3>2 DEF Reached, Ranges
  <2>3. QED
    BY <2>1, <2>2
<1>5. QED
  BY <1>1, <1>2, <1>3, <1>4

LEMMA HeaderStep ==
  ASSUME CallOK, WalkInv, SectionHeader
  PROVE  WalkInv'
<1>1. at = "walk" /\ remain >= SecHdr /\ size' = size
  BY Zenon DEF SectionHeader
<1>2. PICK s \in SecSizes : \E typed \in BOOLEAN :
        IF typed /\ s # 0 /\ s <= remain - SecHdr THEN EnterSection(s) ELSE LeaveWalk
  BY Zenon DEF SectionHeader
<1>3. LeaveWalk \/ (s <= remain - SecHdr /\ EnterSection(s))
  BY <1>2, Zenon
<1>4. CASE LeaveWalk
  <2>1. at' = "trigger" /\ off' = 0 /\ remain' = 0 /\ sec' = 0 /\ written' = <<>>
    BY <1>4 DEF LeaveWalk, Go
  <2>2. sec' \in U16
    BY <2>1 DEF U16
  <2>3. QED
    BY <1>1, <2>1, <2>2, WalkFresh, WalkFacts
<1>5. CASE s <= remain - SecHdr /\ EnterSection(s)
  <2>1. off + remain = size /\ off >= Reached
    BY <1>1, Zenon DEF WalkInv, SectionsApart
  <2>2. /\ at' = "data" /\ off' = off + SecHdr /\ remain' = remain - SecHdr
        /\ sec' = s /\ written' = written
    BY <1>5 DEF EnterSection, Go
  <2>3. /\ off' \in Nat /\ remain' \in Nat /\ off' + remain' = size'
        /\ sec' <= remain' /\ sec' \in U16
    BY <1>1, <1>5, <2>1, <2>2, WalkFacts, SizesNat DEF SecHdr
  <2>4. Reached' = Reached
    BY <2>2, Zenon DEF Reached
  <2>5. off' >= Reached' + SecHdr
    BY <2>1, <2>2, <2>4, WalkFacts DEF SecHdr
  <2>6. SectionsApart'
    BY <1>1, <2>2, <2>3, Zenon DEF SectionsApart, WalkInv
  <2>7. written' \in Seq(Ranges) /\ at' # "walk"
    BY <2>2, WalkFacts
  <2>8. QED
    BY <2>3, <2>5, <2>6, <2>7, Zenon DEF WalkInv
<1>6. QED
  BY <1>3, <1>4, <1>5

(* What is written of a section lies between its header and its end.       *)
LEMMA SectionStep ==
  ASSUME CallOK, WalkInv, Section
  PROVE  WalkInv'
<1> DEFINE r == [from |-> off, past |-> off + 4 * (sec \div 4)]
           n == Len(written)
<1>0. /\ at = "data" /\ size' = size /\ at' = "walk"
  BY Zenon DEF Section, Go
<1>1. /\ off \in Nat /\ remain \in Nat /\ sec \in Nat /\ written \in Seq(Ranges)
      /\ off + remain = size /\ sec <= remain /\ off >= Reached + SecHdr
      /\ size \in Nat /\ size' = size /\ at' = "walk"
  <2>1. off + remain = size /\ sec <= remain /\ off >= Reached + SecHdr
    BY <1>0, Zenon DEF WalkInv, SectionsApart
  <2>2. QED
    BY <1>0, <2>1, WalkFacts
<1>2. /\ off' = off + sec /\ remain' = remain - sec /\ sec' = 0
      /\ written' = Append(written, r)
  BY DEF Section
<1>3. 4 * (sec \div 4) \in Nat /\ 4 * (sec \div 4) <= sec
  BY <1>1
<1>4. off' \in Nat /\ remain' \in Nat /\ off' + remain' = size'
  BY <1>1, <1>2
<1>5. r \in Ranges /\ r.from = off /\ r.past \in Nat /\ r.past <= off' /\ r.past <= size
  BY <1>1, <1>2, <1>3 DEF Ranges
<1> HIDE DEF r
<1>6. /\ written' \in Seq(Ranges) /\ Len(written') = n + 1 /\ n \in Nat
      /\ written'[n + 1] = r /\ \A i \in 1..n : written'[i] = written[i]
  BY <1>1, <1>2, <1>5
<1>7. Reached' = r.past
  BY <1>6 DEF Reached
<1>8. r.from >= (IF n = 0 THEN FileHdr ELSE written[n].past) + SecHdr
  BY <1>1, <1>5 DEF Reached
<1>9. \A i \in 1..Len(written)' : written[i].past' <= size'
  <2>1. \A i \in 1..n : written[i].past <= size
    BY DEF WalkInv, SectionsApart
  <2>2. QED
    BY <1>1, <1>5, <1>6, <2>1
<1>10. ASSUME NEW i \in 1..(n + 1)
       PROVE  written'[i].from >=
                (IF i = 1 THEN FileHdr ELSE written'[i - 1].past) + SecHdr
  <2>1. CASE i = n + 1
    BY <1>6, <1>8, <2>1
  <2>2. CASE i \in 1..n
    <3>1. written[i].from >= (IF i = 1 THEN FileHdr ELSE written[i - 1].past) + SecHdr
      BY <2>2 DEF WalkInv, SectionsApart
    <3>2. QED
      BY <1>6, <2>2, <3>1
  <2>3. QED
    BY <1>6, <2>1, <2>2
<1>11. SectionsApart'
  BY <1>4, <1>6, <1>9, <1>10, Zenon DEF SectionsApart
<1>12. sec' \in U16
  BY <1>2 DEF U16
<1>13. off' >= Reached' /\ at' # "data"
  BY <1>1, <1>5, <1>7
<1>14. QED
  BY <1>4, <1>6, <1>11, <1>12, <1>13, Zenon DEF WalkInv

(* The walk over the sections, whatever their headers say.                 *)
LEMMA WalkStep ==
  ASSUME CallOK, WalkInv, [Next]_vars
  PROVE  WalkInv'
<1> USE DEF Call, Return, Go, Wait, callVars, walkVars
<1>1. CASE MacPowerOn \/ MacEnable
  BY <1>1, WalkKept DEF MacPowerOn, MacEnable
<1>2. CASE LltDone \/ MacPostinit \/ PowerCall
  BY <1>2, WalkKept DEF LltDone, MacPostinit, PowerCall
<1>3. CASE FwBegin \/ NoFirmware
  <2>1. CASE FwBegin
    <3>1. size \in Nat /\ size' = size /\ size >= FileHdr
      BY <2>1, WalkFacts DEF FwBegin
    <3>2. off' = FileHdr /\ remain' = size - FileHdr /\ written' = <<>> /\ at' = "walk"
      BY <2>1 DEF FwBegin
    <3>3. remain' \in Nat /\ off' \in Nat /\ off' + remain' = size'
      BY <3>1, <3>2 DEF FileHdr
    <3>4. sec' \in U16
      BY <2>1, WalkFacts DEF FwBegin
    <3>5. QED
      BY <3>1, <3>2, <3>3, <3>4, WalkFresh
  <2>2. CASE NoFirmware
    BY <2>2, WalkKept DEF NoFirmware
  <2>3. QED
    BY <1>3, <2>1, <2>2
<1>4. CASE SectionHeader \/ WalkEnds
  <2>1. CASE SectionHeader
    BY <2>1, HeaderStep
  <2>2. CASE WalkEnds
    <3>1. /\ at' = "trigger" /\ off' = 0 /\ remain' = 0 /\ sec' = 0
          /\ written' = <<>> /\ size' = size
      BY <2>2 DEF WalkEnds, LeaveWalk
    <3>2. sec' \in U16
      BY <3>1 DEF U16
    <3>3. QED
      BY <3>1, <3>2, WalkFresh, WalkFacts
  <2>3. QED
    BY <1>4, <2>1, <2>2
<1>5. CASE Section \/ Trigger \/ FwReady
  <2>1. CASE Section
    BY <2>1, SectionStep
  <2>2. CASE Trigger \/ FwReady
    BY <2>2, WalkKept DEF Trigger, FwReady
  <2>3. QED
    BY <1>5, <2>1, <2>2
<1>6. CASE PollAgain \/ PollTimeout
  BY <1>6, WalkKept DEF PollAgain, PollTimeout
<1>7. CASE (\E ch \in Channels, bw \in Widths, p \in Primaries : SetChannel(ch, bw, p))
  BY <1>7, WalkKept DEF SetChannel
<1>8. CASE ChipAnswers \/ ChipFillsLlt \/ ChipReports \/ ChipTakesEn
  BY <1>8, WalkKept DEF ChipAnswers, ChipFillsLlt, ChipReports, ChipTakesEn
<1>9. CASE UNCHANGED vars
  BY <1>9, WalkKept DEF vars
<1>10. QED
  BY <1>1, <1>2, <1>3, <1>4, <1>5, <1>6, <1>7, <1>8, <1>9, StepKinds

LEMMA StepInv == IInv /\ [Next]_vars => IInv'
<1> SUFFICES ASSUME IInv, [Next]_vars PROVE IInv'
  OBVIOUS
<1>1. /\ CallOK /\ BoolOK /\ RegOK /\ MacOK /\ ChanOK
      /\ WalkInv /\ EnInv /\ PowerInv /\ BoundariesHalfAgree /\ ChannelAsSet
  BY Zenon DEF IInv
<1>2. CallOK' /\ BoolOK' /\ RegOK'
  BY <1>1, CallStep, BoolStep, RegStep
<1>3. MacOK' /\ BoundariesHalfAgree' /\ ChanOK' /\ ChannelAsSet'
  BY <1>1, MacStep, ChannelStep
<1>4. WalkInv' /\ EnInv' /\ PowerInv'
  BY <1>1, WalkStep, EnStep, PowerStep
<1>5. QED
  BY <1>2, <1>3, <1>4, Zenon DEF IInv

LEMMA Inductive == Spec => []IInv
BY InitInv, StepInv, PTL DEF Spec

LEMMA Implied ==
  IInv => TypeOK /\ SectionsApart /\ ReadyNeedsChip /\ InitialisedMac /\ ChannelAsSet
BY TypeParts, Zenon DEF IInv, WalkInv, EnInv, PowerInv, InitialisedMac

(* Every variable keeps its type, whatever the chip and the image do.      *)
THEOREM TypeCorrect == Spec => []TypeOK
BY Inductive, Implied, PTL

(* Whatever section headers an image holds, what is written to the chip    *)
(* lies inside the image and behind the header of its own section.         *)
THEOREM SectionsStayApart == Spec => []SectionsApart
BY Inductive, Implied, PTL

(* Only a chip that takes BIT_MCUFWDL_EN back lets a download succeed.     *)
THEOREM ReadyNeedsTaking == Spec => []ReadyNeedsChip
BY Inductive, Implied, PTL

(* An initialised MAC belongs to a chip that has answered, and its         *)
(* boundary registers agree with dev->fifo but for the high byte of the    *)
(* beacon queue's.                                                         *)
THEOREM MacInitialised == Spec => []InitialisedMac
BY Inductive, Implied, PTL

(* The registers of the channel are those of the last channel set, on the  *)
(* chips whose operation programs them, and untouched on the others.       *)
THEOREM ChannelFollows == Spec => []ChannelAsSet
BY Inductive, Implied, PTL

-----------------------------------------------------------------------------

(* What a call that returns has before it, at most: the reads of its polls *)
(* and, of a download, what is left of the image.                          *)
Ahead ==
    IF at = "fw_ready" \/ at = "llt" THEN polls + 1
    ELSE IF at = "power_on" THEN polls + PollBudget + 2
    ELSE IF at = "trigger" THEN PollBudget + 2
    ELSE IF at = "walk" THEN remain + PollBudget + 3
    ELSE IF at = "data" THEN remain + PollBudget + 4
    ELSE 0

(* A step inside a call that returns.                                      *)
Nears ==
    at \notin {"idle", "recursing"} =>
        IF Driver THEN Ahead' < Ahead ELSE UNCHANGED <<at, polls, remain>>

LEMMA AheadFacts ==
  ASSUME IInv
  PROVE  /\ polls \in Nat /\ PollBudget \in Nat /\ polls <= PollBudget
         /\ remain \in Nat /\ sec \in Nat /\ size \in Nat
         /\ at \in {"walk", "data"} => remain <= size
         /\ at = "data" => sec <= remain
<1>1. CallOK /\ WalkInv
  BY Zenon DEF IInv
<1>2. polls \in Nat /\ PollBudget \in Nat /\ polls <= PollBudget
  BY <1>1, BoundAssumption DEF CallOK
<1>3. off \in Nat /\ remain \in Nat /\ sec \in Nat /\ size \in Nat
  BY <1>1, WalkFacts
<1>4. (at \in {"walk", "data"} => off + remain = size) /\ (at = "data" => sec <= remain)
  BY <1>1 DEF WalkInv, SectionsApart
<1>5. QED
  BY <1>2, <1>3, <1>4

LEMMA DriverNears ==
  ASSUME IInv, Driver, at \notin {"idle", "recursing"}
  PROVE  Ahead' < Ahead
<1> USE DEF Call, Return, Go, Wait
<1>1. /\ polls \in Nat /\ PollBudget \in Nat /\ remain \in Nat /\ sec \in Nat
      /\ at = "data" => sec <= remain
  BY AheadFacts
<1>2. ASSUME at' = "idle", at \in {"power_on", "llt", "fw_ready"} PROVE Ahead' < Ahead
  BY <1>1, <1>2 DEF Ahead
<1>3. CASE PollAgain
  <2>1. Polling /\ polls > 0 /\ polls' = polls - 1 /\ at' = at
    BY <1>3 DEF PollAgain
  <2>2. QED
    BY <1>1, <2>1 DEF Polling, Ahead
<1>4. CASE PollTimeout
  BY <1>2, <1>4 DEF PollTimeout, Polling
<1>5. CASE LltDone \/ FwReady
  BY <1>2, <1>5 DEF LltDone, FwReady
<1>6. CASE MacEnable
  <2>1. at = "power_on" /\ ((at' = "llt" /\ polls' = PollBudget) \/ at' = "idle")
    BY <1>6, Zenon DEF MacEnable
  <2>2. CASE at' = "idle"
    BY <1>2, <2>1, <2>2
  <2>3. CASE at' = "llt" /\ polls' = PollBudget
    <3>1. polls > 0
      BY <1>6 DEF MacEnable
    <3>2. QED
      BY <1>1, <2>1, <2>3, <3>1 DEF Ahead
  <2>4. QED
    BY <2>1, <2>2, <2>3
<1>7. ASSUME at = "walk", at' = "trigger" PROVE Ahead' < Ahead
  BY <1>1, <1>7 DEF Ahead
<1>8. CASE WalkEnds
  BY <1>7, <1>8 DEF WalkEnds, LeaveWalk
<1>9. CASE SectionHeader
  <2>1. PICK s \in SecSizes, typed \in BOOLEAN :
          IF typed /\ s # 0 /\ s <= remain - SecHdr THEN EnterSection(s) ELSE LeaveWalk
    BY <1>9, Zenon DEF SectionHeader
  <2>2. at = "walk" /\ remain >= SecHdr
    BY <1>9 DEF SectionHeader
  <2>3. CASE LeaveWalk
    BY <1>7, <2>2, <2>3 DEF LeaveWalk
  <2>4. CASE EnterSection(s)
    <3>1. at' = "data" /\ remain' = remain - 8
      BY <2>4 DEF EnterSection, SecHdr
    <3>2. QED
      BY <1>1, <2>2, <3>1 DEF Ahead
  <2>5. QED
    BY <2>1, <2>3, <2>4, Zenon
<1>10. CASE Section
  <2>1. at = "data" /\ at' = "walk" /\ remain' = remain - sec
    BY <1>10 DEF Section
  <2>2. QED
    BY <1>1, <2>1 DEF Ahead
<1>11. CASE Trigger
  <2>1. at = "trigger" /\ at' = "fw_ready" /\ polls' = PollBudget
    BY <1>11 DEF Trigger
  <2>2. QED
    BY <1>1, <2>1 DEF Ahead
<1>12. QED
  BY <1>3, <1>4, <1>5, <1>6, <1>8, <1>9, <1>10, <1>11
  DEF Driver, Mac, Firmware, MacPowerOn, MacPostinit, PowerCall, FwBegin, NoFirmware, SetChannel

(* However the chip answers and whatever the section headers say, a call   *)
(* that is not one of the recursive power operations is over after a       *)
(* number of steps bounded by the image and two poll budgets; a section    *)
(* header can neither stretch the walk nor turn it back                    *)
(* (mac.c:66, 123; fw.c:113-135, 153).                                     *)
THEOREM CallIsBounded ==
  Spec => [](Ahead \in 0..(size + 2 * PollBudget + 4)) /\ [][Nears]_vars
<1>1. IInv => Ahead \in 0..(size + 2 * PollBudget + 4)
  BY AheadFacts DEF Ahead
<1>2. IInv /\ [Next]_vars => [Nears]_vars
  <2> SUFFICES ASSUME IInv, Next, at \notin {"idle", "recursing"}, ~Driver
               PROVE  UNCHANGED <<at, polls, remain>>
    BY DriverNears, Zenon DEF Nears
  <2>1. Chip
    BY DEF Next
  <2>2. QED
    BY <2>1 DEF Chip, ChipAnswers, ChipFillsLlt, ChipReports, ChipTakesEn, callVars, walkVars
<1>3. QED
  BY <1>1, <1>2, Inductive, PTL DEF Spec
=============================================================================
