---------------------------- MODULE Rtw88Bringup -----------------------------
(***************************************************************************)
(* The calls that bring an rtw88 chip up: rtw_mac_init, rtw_mac_postinit   *)
(* and rtw_set_channel (rtw88/mac.c), rtw_fw_download (rtw88/fw.c) and     *)
(* rtw_power_on and rtw_power_off (rtw88/rtw88.c) over the chips' tables   *)
(* (rtw88/rtw8*.c). Nobody in the repository calls them, so they are taken *)
(* one at a time in any order.                                             *)
(*                                                                         *)
(* A register is the set of its bits that matter, the boundary registers   *)
(* are bytes of memory. The chip (external) sets and clears its own bits   *)
(* at any time. Nobody checks the image, so what stands in a section       *)
(* header is chosen when it is read.                                       *)
(***************************************************************************)
EXTENDS Integers, Sequences

CONSTANTS
    Chips,      (* names of chips                                          *)
    Spec88,     (* the part of a chip's rtw_chip_info that is used here    *)
    Sizes,      (* lengths of images, 0 for no firmware                    *)
    SecSizes,   (* values of the size field of a section, a u16            *)
    Channels, Primaries,
    PollBudget, (* reads of a register, 100 or 500 in the code             *)
    MaxCalls    (* bound: calls                                            *)

Widths == 0..3   (* RTW_CHANNEL_WIDTH_20, 40, 80, 160 *)

ASSUME ChipAssumption ==
    Spec88 \in [Chips -> [txff : Nat, page : Nat \ {0}, rsvd : Nat, programs : BOOLEAN]]
ASSUME SizeAssumption == Sizes \subseteq Nat
ASSUME SectionAssumption == \A s \in SecSizes : s \in Nat /\ s < 65536
ASSUME ChannelAssumption == Channels \subseteq 1..255 /\ Primaries \subseteq 0..15
ASSUME BoundAssumption == PollBudget \in Nat /\ MaxCalls \in Nat

FileHdr == 12   (* FW_HEADER_SIZE *)
SecHdr  == 8    (* FW_SECTION_HEADER_SIZE *)

VARIABLES
    chip, size, (* dev->chip, fw->size                                     *)
    at,         (* "idle", or the place in the running call                *)
    calls,      (* calls made                                              *)
    polls,      (* reads left in the running poll                          *)
    cr,         (* REG_CR: "SEC" and, in its low byte, "SCHEDULE", "TRX"   *)
    asked,      (* APS_FSMCO_MAC_ENABLE has been set                       *)
    powered,    (* history: the chip has answered, to anybody              *)
    autoLlt,    (* BIT_AUTO_INIT_LLT                                       *)
    mem,        (* bytes of the boundary registers                         *)
    fifo,       (* dev->fifo                                               *)
    rcr,        (* filters set by rtw_mac_postinit                         *)
    ctrl,       (* REG_MCUFW_CTRL: "EN", "CLK", "RDY" and those of Ready   *)
    enTaken,    (* history: the chip cleared "EN" since it was last set    *)
    fwUp,       (* history: the last rtw_fw_download returned 0            *)
    off, remain,(* ptr, from the beginning of the image, and remain; these *)
                (* three are 0 outside of the loop over the sections       *)
    sec,        (* section->size of the section at hand                    *)
    written,    (* history: where in the image what was written lay       *)
    hal,        (* current_channel and current_band_width                  *)
    dataSc, rfmod, cck  (* REG_DATA_SC, BIT_RFMOD, BIT_CHECK_CCK_EN        *)

callVars == <<at, calls, polls>>
macVars  == <<cr, asked, powered, autoLlt, mem, fifo, rcr>>
ctrlVars == <<ctrl, enTaken, fwUp>>
walkVars == <<off, remain, sec, written>>
chanVars == <<hal, dataSc, rfmod, cck>>
vars == <<chip, size, callVars, macVars, ctrlVars, walkVars, chanVars>>

LowByte == {"SCHEDULE", "TRX"}
Ready   == {"FW_DW_RDY", "INIT_RDY"}   (* FW_READY, the checksums with FW_DW_RDY *)

TRXFF == 276    (* REG_TRXFF_BNDY, 0x0114 *)
BCNQ  == 1060   (* REG_BCNQ_BDNY,  0x0424 *)
MGQ   == 1061   (* REG_MGQ_BDNY,   0x0425 *)

(* Mutant: the value is not reduced to a byte.                             *)
Write8Wide(m, a, v) == [m EXCEPT ![a] = v]

Write8(m, a, v)  == [m EXCEPT ![a] = v % 256]
Write16(m, a, v) == [m EXCEPT ![a] = v % 256, ![a + 1] = (v \div 256) % 256]
Read16(m, a)     == m[a] + 256 * m[a + 1]

NoFifo == [rsvd_boundary |-> 0, txff_pg_num |-> 0]

Init ==
    /\ chip \in Chips /\ size \in Sizes
    /\ at = "idle" /\ calls = 0 /\ polls = PollBudget
    /\ cr \in {{}, LowByte} /\ powered = (cr # {})
    /\ asked = FALSE /\ autoLlt = FALSE
    /\ mem = [a \in {TRXFF, TRXFF + 1, BCNQ, MGQ} |-> 0] /\ fifo = NoFifo /\ rcr = {}
    /\ ctrl = {} /\ enTaken = FALSE /\ fwUp = FALSE
    /\ off = 0 /\ remain = 0 /\ sec = 0 /\ written = <<>>
    /\ hal = [ch |-> 0, bw |-> 0] /\ dataSc = 0
    /\ rfmod = {7, 8} /\ cck = FALSE

(***************************************************************************)
(* Calls and polls.                                                        *)
(***************************************************************************)
Call == at = "idle" /\ calls < MaxCalls /\ calls' = calls + 1
Return == at' = "idle" /\ UNCHANGED <<calls, polls>>
Go(place) == at' = place /\ UNCHANGED <<calls, polls>>
Wait(place) == at' = place /\ polls' = PollBudget /\ UNCHANGED calls

(* Mutant: EN is not among the bits compared.                              *)
FirmwareReadyUnderEn == ctrl \ {"CLK", "EN"} = Ready

(* (fw_ctrl & FW_READY_MASK) == FW_READY: all bits but the clock select.   *)
FirmwareReady == ctrl \ {"CLK"} = Ready

Seen ==
    \/ at = "power_on" /\ cr \cap {"SEC", "SCHEDULE"} # {}
    \/ at = "llt" /\ ~autoLlt
    \/ at = "fw_ready" /\ FirmwareReady

Polling == at \in {"power_on", "llt", "fw_ready"}

(* Mutant: the reads are not counted.                                      *)
PollForever == Polling /\ polls > 0 /\ ~Seen /\ UNCHANGED vars

PollAgain ==
    /\ Polling /\ polls > 0 /\ ~Seen
    /\ polls' = polls - 1
    /\ UNCHANGED <<chip, size, at, calls, macVars, ctrlVars, walkVars, chanVars>>

PollTimeout ==
    /\ Polling /\ polls = 0
    /\ Return
    /\ UNCHANGED <<chip, size, macVars, ctrlVars, walkVars, chanVars>>

(***************************************************************************)
(* rtw_mac_init.                                                           *)
(***************************************************************************)
(* Mutant: the MAC is enabled before it is seen to have power.             *)
MacPowerOnEnabling ==
    /\ Call /\ at' = "power_on" /\ polls' = PollBudget
    /\ asked' = TRUE /\ cr' = cr \cup LowByte
    /\ UNCHANGED <<chip, size, powered, autoLlt, mem, fifo, rcr, ctrlVars, walkVars, chanVars>>

(* rtw_mac_power_on: functions and MAC are asked for, then REG_CR is read. *)
MacPowerOn ==
    /\ Call /\ at' = "power_on" /\ polls' = PollBudget
    /\ asked' = TRUE
    /\ UNCHANGED <<chip, size, cr, powered, autoLlt, mem, fifo, rcr, ctrlVars, walkVars, chanVars>>

TotalPages(c) == Spec88[c].txff \div Spec88[c].page

(* rtw_init_mac after the poll: the low byte of REG_CR is cleared and set, *)
(* which a chip that is not ready may ignore, and checked; then rtw_llt_init *)
(* starts the chip's own initialisation of the list.                       *)
MacEnable ==
    /\ at = "power_on" /\ polls > 0 /\ Seen
    /\ \E took \in SUBSET LowByte : cr' = (cr \ LowByte) \cup took
    /\ IF cr' \cap LowByte # {} /\ TotalPages(chip) # 0
       THEN Wait("llt") /\ autoLlt' = TRUE
       ELSE Return /\ UNCHANGED autoLlt
    /\ UNCHANGED <<chip, size, asked, powered, mem, fifo, rcr, ctrlVars, walkVars, chanVars>>

Boundary(c) == (TotalPages(c) - Spec88[c].rsvd) % 65536

(* Mutant: the three registers in the order of their queues.               *)
BoundariesMgqFirst(m, b) ==
    Write16(Write8(Write16(m, TRXFF, b % 4096), MGQ, b), BCNQ, b % 4096)

(* The last write is to the second byte of the register before it.         *)
Boundaries(m, b) ==
    Write8(Write16(Write16(m, TRXFF, b % 4096), BCNQ, b % 4096), MGQ, b)

(* The end of rtw_llt_init.                                                *)
LltDone ==
    /\ at = "llt" /\ polls > 0 /\ Seen
    /\ mem' = Boundaries(mem, Boundary(chip))
    /\ fifo' = [rsvd_boundary |-> Boundary(chip), txff_pg_num |-> TotalPages(chip) % 65536]
    /\ Return
    /\ UNCHANGED <<chip, size, cr, asked, powered, autoLlt, rcr, ctrlVars, walkVars, chanVars>>

MacPostinit ==
    /\ Call /\ rcr' = rcr \cup {"PHYSTS", "FCS", "AM", "AB", "AAP"}
    /\ UNCHANGED <<chip, size, at, polls, cr, asked, powered, autoLlt, mem, fifo,
                   ctrlVars, walkVars, chanVars>>

(* rtw_power_on and rtw_power_off call the chip's operation, which calls   *)
(* them again: neither returns.                                            *)
PowerCall ==
    /\ Call /\ at' = "recursing" /\ UNCHANGED polls
    /\ UNCHANGED <<chip, size, macVars, ctrlVars, walkVars, chanVars>>

(***************************************************************************)
(* rtw_fw_download.                                                        *)
(***************************************************************************)
(* A 32-bit write: what the chip reports in the register may outlive it.   *)
WriteCtrl(bits) ==
    /\ \E kept \in SUBSET (ctrl \cap (Ready \cup {"RDY"})) : ctrl' = bits \cup kept
    /\ enTaken' = FALSE

FwBegin ==
    /\ Call /\ size >= FileHdr
    /\ at' = "walk" /\ UNCHANGED polls
    /\ off' = FileHdr /\ remain' = size - FileHdr /\ written' = <<>>
    /\ WriteCtrl({"EN"}) /\ fwUp' = FALSE
    /\ UNCHANGED <<chip, size, sec, macVars, chanVars>>

NoFirmware ==
    /\ Call /\ size < FileHdr
    /\ fwUp' = FALSE
    /\ UNCHANGED <<chip, size, at, polls, macVars, ctrl, enTaken, walkVars, chanVars>>

LeaveWalk ==
    /\ Go("trigger")
    /\ off' = 0 /\ remain' = 0 /\ sec' = 0 /\ written' = <<>>

EnterSection(s) ==
    /\ Go("data")
    /\ off' = off + SecHdr /\ remain' = remain - SecHdr /\ sec' = s
    /\ UNCHANGED written

(* Mutant: a section is compared with what remained before its header.     *)
SectionHeaderUncounted ==
    /\ at = "walk" /\ remain >= SecHdr
    /\ \E s \in SecSizes, typed \in BOOLEAN :
        IF typed /\ s # 0 /\ s <= remain THEN EnterSection(s) ELSE LeaveWalk
    /\ UNCHANGED <<chip, size, macVars, ctrlVars, chanVars>>

(* A section header. The walk ends, without an error, at one of type or    *)
(* size 0 and at one that promises more than is left.                      *)
SectionHeader ==
    /\ at = "walk" /\ remain >= SecHdr
    /\ \E s \in SecSizes, typed \in BOOLEAN :
        IF typed /\ s # 0 /\ s <= remain - SecHdr THEN EnterSection(s) ELSE LeaveWalk
    /\ UNCHANGED <<chip, size, macVars, ctrlVars, chanVars>>

WalkEnds ==
    /\ at = "walk" /\ remain < SecHdr
    /\ LeaveWalk
    /\ UNCHANGED <<chip, size, macVars, ctrlVars, chanVars>>

(* rtw_fw_section_write, whole words only, and on to the next header.      *)
Section ==
    /\ at = "data" /\ Go("walk")
    /\ written' = Append(written, [from |-> off, past |-> off + 4 * (sec \div 4)])
    /\ off' = off + sec /\ remain' = remain - sec /\ sec' = 0
    /\ UNCHANGED <<chip, size, macVars, ctrlVars, chanVars>>

(* The four writes that start the CPU. VAL_FW_TRIGGER is BIT_MCUFWDL_EN    *)
(* again, and the byte write of the clock select writes nothing of it.     *)
Trigger ==
    /\ at = "trigger" /\ Wait("fw_ready")
    /\ WriteCtrl({"EN", "CLK"})
    /\ UNCHANGED <<chip, size, fwUp, macVars, walkVars, chanVars>>

FwReady ==
    /\ at = "fw_ready" /\ polls > 0 /\ Seen
    /\ Return /\ fwUp' = TRUE
    /\ UNCHANGED <<chip, size, ctrl, enTaken, macVars, walkVars, chanVars>>

(***************************************************************************)
(* rtw_set_channel.                                                        *)
(***************************************************************************)
(* RTW_SC_20_UPPER is 1, _UPMOST 3; RTW_SC_40_LOWER is 1, _UPPER 2.        *)
SubChannels(bw, primary) ==
    primary + 16 * (IF bw # 2 THEN 0 ELSE IF primary \in {1, 3} THEN 2 ELSE 1)

ModeBits(bw) == CASE bw = 2 -> {8} [] bw = 1 -> {7} [] OTHER -> {}

(* Mutant: the width is added to the one before.                           *)
SetChannelMacAdding(ch, bw, primary) ==
    /\ dataSc' = SubChannels(bw, primary)
    /\ rfmod' = rfmod \cup ModeBits(bw)
    /\ cck' = (ch > 14)

(* rtw_set_channel_mac.                                                    *)
SetChannelMac(ch, bw, primary) ==
    /\ dataSc' = SubChannels(bw, primary)
    /\ rfmod' = (rfmod \ {7, 8}) \cup ModeBits(bw)
    /\ cck' = (ch > 14)

(* The operation of rtw8821c does nothing.                                 *)
SetChannel(ch, bw, primary) ==
    /\ Call /\ UNCHANGED <<at, polls>>
    /\ hal' = [ch |-> ch, bw |-> bw]
    /\ IF Spec88[chip].programs
       THEN SetChannelMac(ch, bw, primary)
       ELSE UNCHANGED <<dataSc, rfmod, cck>>
    /\ UNCHANGED <<chip, size, macVars, ctrlVars, walkVars>>

(***************************************************************************)
(* The chip (external).                                                    *)
(***************************************************************************)
ChipAnswers ==
    /\ asked /\ ~powered
    /\ powered' = TRUE
    /\ \E b \in {"SEC", "SCHEDULE"} : cr' = cr \cup {b}
    /\ UNCHANGED <<chip, size, callVars, asked, autoLlt, mem, fifo, rcr,
                   ctrlVars, walkVars, chanVars>>

ChipFillsLlt ==
    /\ autoLlt /\ autoLlt' = FALSE
    /\ UNCHANGED <<chip, size, callVars, cr, asked, powered, mem, fifo, rcr,
                   ctrlVars, walkVars, chanVars>>

ChipReports ==
    /\ "CLK" \in ctrl
    /\ \E b \in (Ready \cup {"RDY"}) \ ctrl : ctrl' = ctrl \cup {b}
    /\ UNCHANGED <<chip, size, callVars, enTaken, fwUp, macVars, walkVars, chanVars>>

ChipTakesEn ==
    /\ "EN" \in ctrl
    /\ ctrl' = ctrl \ {"EN"} /\ enTaken' = TRUE
    /\ UNCHANGED <<chip, size, callVars, fwUp, macVars, walkVars, chanVars>>

Mac == MacPowerOn \/ MacEnable \/ LltDone \/ MacPostinit \/ PowerCall
Firmware ==
    \/ FwBegin \/ NoFirmware \/ SectionHeader \/ WalkEnds \/ Section
    \/ Trigger \/ FwReady
Driver ==
    \/ Mac \/ Firmware \/ PollAgain \/ PollTimeout
    \/ \E ch \in Channels, bw \in Widths, p \in Primaries : SetChannel(ch, bw, p)
Chip == ChipAnswers \/ ChipFillsLlt \/ ChipReports \/ ChipTakesEn

Next == Driver \/ Chip

Spec == Init /\ [][Next]_vars

FairSpec == Spec /\ WF_vars(Driver)

(***************************************************************************)
(* Properties.                                                             *)
(***************************************************************************)
U8     == {n \in Nat : n < 256}
U16    == {n \in Nat : n < 65536}
Bytes  == [{TRXFF, TRXFF + 1, BCNQ, MGQ} -> U8]
Fifos  == [rsvd_boundary : U16, txff_pg_num : U16]
Ranges == [from : Nat, past : Nat]
Tuned  == [ch : Channels \cup {0}, bw : Widths]

TypeOK ==
    /\ chip \in Chips /\ size \in Sizes
    /\ at \in {"idle", "recursing", "power_on", "llt", "walk", "data", "trigger", "fw_ready"}
    /\ calls \in 0..MaxCalls /\ polls \in 0..PollBudget
    /\ cr \subseteq LowByte \cup {"SEC"}
    /\ asked \in BOOLEAN /\ powered \in BOOLEAN /\ autoLlt \in BOOLEAN
    /\ enTaken \in BOOLEAN /\ fwUp \in BOOLEAN /\ cck \in BOOLEAN
    /\ mem \in Bytes /\ fifo \in Fifos
    /\ rcr \subseteq {"PHYSTS", "FCS", "AM", "AB", "AAP"}
    /\ ctrl \subseteq Ready \cup {"EN", "CLK", "RDY"}
    /\ off \in Nat /\ remain \in Nat /\ sec \in U16 /\ written \in Seq(Ranges)
    /\ hal \in Tuned /\ dataSc \in U8 /\ rfmod \subseteq {7, 8}

(* Whatever the section headers say, nothing outside the image is written  *)
(* to the chip, and no section is taken for data of another: each lies     *)
(* behind a header of its own, after the one before (fw.c:113-135).        *)
SectionsApart ==
    /\ at \in {"walk", "data"} => off + remain = size
    /\ \A i \in 1..Len(written) : written[i].past <= size
    /\ \A i \in 1..Len(written) :
        written[i].from >= (IF i = 1 THEN FileHdr ELSE written[i - 1].past) + SecHdr

(* The download succeeds only on a chip that takes back BIT_MCUFWDL_EN,    *)
(* which the driver itself sets last and the mask of the ready poll        *)
(* includes; on any other it always times out (fw.c:145-158).              *)
ReadyNeedsChip == fwUp => enTaken

(* A MAC is initialised only if the chip has answered once: the poll cannot *)
(* be satisfied by the bits a call writes to REG_CR itself, except those   *)
(* of a successful call before it (mac.c:63-73, 86-101).                   *)
InitialisedWasPowered == fifo # NoFifo => powered

(* The FIFO boundary of the chip is then dev->fifo's, and so is the low    *)
(* byte of either queue's. The high byte of the beacon queue's is the low  *)
(* byte of the management queue's, whose register lies there               *)
(* (mac.c:135-140).                                                        *)
BoundariesHalfAgree ==
    fifo # NoFifo =>
        /\ Read16(mem, TRXFF) = fifo.rsvd_boundary % 4096
        /\ Read16(mem, BCNQ) = 257 * (fifo.rsvd_boundary % 256)
        /\ mem[MGQ] = fifo.rsvd_boundary % 256

(* What an initialised MAC is.                                             *)
InitialisedMac == InitialisedWasPowered /\ BoundariesHalfAgree

(* The registers follow the channel the driver believes it is on, whatever *)
(* was set before it; on a chip whose operation does nothing they stay as  *)
(* they were, and the driver believes in the channel all the same          *)
(* (mac.c:19-44, 186-196; rtw8821c.c:99-106).                              *)
ChannelAsSet ==
    IF hal.ch # 0 /\ Spec88[chip].programs
    THEN /\ rfmod = ModeBits(hal.bw) /\ (cck <=> hal.ch > 14)
         /\ dataSc >= 16 <=> hal.bw = 2
    ELSE rfmod = {7, 8} /\ ~cck /\ dataSc = 0

(* Every call returns, whatever the chip does and the image says, but for  *)
(* rtw_power_on and rtw_power_off (mac.c:66, 123; fw.c:114, 153).          *)
CallsReturn == at \notin {"idle", "recursing"} ~> at = "idle"
=============================================================================
