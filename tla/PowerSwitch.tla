----------------------------- MODULE PowerSwitch ------------------------------
(***************************************************************************)
(* The power switch of the RTL8852BE: rtw89_mac_power_switch and the retry *)
(* of rtw89_mac_pwr_on (rtw89/mac.c) over the register sequences of the    *)
(* chip (rtw89/rtw8852b.c).                                                *)
(*                                                                         *)
(* A sequence is data: bits set, bits cleared, fields written, polls, and  *)
(* writes through the crystal serial interface (XTAL SI), which end in a   *)
(* poll of their own. Any poll can time out, which abandons the sequence   *)
(* where it is; a request already made to the chip stands, and may be      *)
(* served later.                                                           *)
(*                                                                         *)
(* The hardware (external) serves the two power requests, ONMAC and        *)
(* OFFMAC, in its own time. efuse_valid and rfe_type are never set in this *)
(* driver, so the branches they guard are dead and left out. Of a field of *)
(* more than one bit the model knows whether it is zero.                   *)
(***************************************************************************)
EXTENDS Naturals, Sequences

CONSTANT MaxCalls   (* bound: calls of pwr_on and pwr_off *)

ASSUME BoundAssumption == MaxCalls \in Nat

VARIABLES
    call,      (* "none", or the exported function that is running         *)
    seq,       (* which sequence it is in: "on" or "off"                   *)
    pos,       (* next step of the sequence                                *)
    retried,   (* pwr_on has been through its power off                    *)
    result,    (* of the last call: "none", "ok", "fail"                   *)
    last,      (* the last call                                            *)
    calls,     (* calls made                                               *)
    flags,     (* rtwdev->flags                                            *)
    chip,      (* register bits that are set, fields that are not zero     *)
    mac,       (* what the hardware has made of it: "up" or "down"         *)
    lateOff    (* history: a poll for OFFMAC has timed out, or the chip    *)
               (* came with a request to power off                        *)

callVars == <<call, seq, pos, retried, result, last, calls>>
vars     == <<callVars, flags, chip, mac, lateOff>>

(***************************************************************************)
(* The sequences.                                                          *)
(***************************************************************************)
SetBit(b)  == [op |-> "set",  bit |-> b]
ClrBit(b)  == [op |-> "clr",  bit |-> b]
Until(b)   == [op |-> "until", bit |-> b]    (* poll until the bit is set   *)
While(b)   == [op |-> "while", bit |-> b]    (* poll while the bit is set   *)

(* Mutant: the value is shifted to the place of the field.                 *)
FieldShifted(f, unit, val) == IF val # 0 THEN SetBit(f) ELSE ClrBit(f)

Bit8  == 256
Bit20 == 1048576
Bit28 == 268435456

(* rtw89_write32_mask keeps of the value what lies under the mask, and     *)
(* does not shift it there: unit is the value of the field's lowest bit.   *)
Field(f, unit, val) == IF val \div unit # 0 THEN SetBit(f) ELSE ClrBit(f)

(* rtw89_mac_write_xtal_si(addr, mask, data): under the mask, the data.    *)
Xtal(mask, data) == [op |-> "xtal", bit |-> "CMD_POLL", mask |-> mask, data |-> data]

(* Mutant: the bit is put under the mask, as the calls mean it.            *)
XtalClrMasked(b) == Xtal({b}, {})

XtalSet(b) == Xtal({b}, {b})
XtalClr(b) == Xtal({}, {b})   (* the calls that pass 0 and the bit *)

Wake  == <<ClrBit("WLSUS"), SetBit("PDNSUS"), SetBit("LPSEN"), ClrBit("HPDN"), ClrBit("SWLPS"),
           Until("RDY_SYSPWR"), SetBit("AON_OFF_PC"), Until("AON_OFF_PC")>>
SpsDigOff == <<Field("C1_L1", 1, 1), Field("C3_L1", Bit8, 3)>>
MacOn == <<SetBit("EN_WLON"), SetBit("ONMAC"), While("ONMAC")>>
Platform ==
    <<SetBit("PLATFORM"), ClrBit("PLATFORM"), SetBit("PLATFORM"), ClrBit("PLATFORM"),
      SetBit("PLATFORM"), ClrBit("CALIB")>>

(* Bit 4 of ANAPAR_WL has two names, RFC2RF and PON_EI.                    *)
AnalogOn ==
    <<SetBit("PTA"), XtalSet("GND_SHDN"), SetBit("RFC"), XtalSet("SHDN"),
      XtalSet("OFF_WEI"), XtalSet("OFF_EI"), XtalClr("ANAPAR4"), XtalSet("PON_WEI"),
      XtalSet("ANAPAR4"), XtalClr("SRAM2RFC"), XtalClr("SRAM_DIS"), XtalClr("LDO_LPS"),
      XtalClr("LPS_CAP")>>
Isolation ==
    <<SetBit("WRMSK"), SetBit("EB2CORE"), ClrBit("PWC_B15"), ClrBit("PWC_B14"),
      ClrBit("WRMSK")>>
Functions == <<SetBit("DMAC"), SetBit("CMAC"), Field("EESK_FUNC_SEL", Bit20, 1)>>

AnalogOff ==
    <<XtalSet("ANAPAR4"), XtalClr("OFF_EI"), XtalClr("OFF_WEI"), XtalClr("RF00"),
      XtalClr("RF10"), XtalSet("SRAM2RFC"), XtalClr("ANAPAR4"), XtalClr("PON_WEI"),
      SetBit("EN_WLON"), ClrBit("AFEDIG"), ClrBit("BB_RSTN"), ClrBit("RFC"),
      XtalClr("SHDN"), ClrBit("PTA"), XtalClr("GND_SHDN")>>
MacOff ==
    <<SetBit("OFFMAC"), While("OFFMAC"), SetBit("LPSEN"), SetBit("PWMFREQ"),
      Field("REG_ZCDC_H", Bit28, 3), SetBit("SWLPS")>>

(* Mutant: the poll for the end of the request is left out.                *)
OnSeqUnpolled ==
    Wake \o SpsDigOff \o SubSeq(MacOn, 1, 2) \o Platform \o AnalogOn \o Isolation \o Functions

(* rtw8852b_pwr_on_func. *)
OnSeq == Wake \o SpsDigOff \o MacOn \o Platform \o AnalogOn \o Isolation \o Functions

(* Mutant: the poll for the end of the request is left out.                *)
OffSeqUnpolled == AnalogOff \o <<MacOff[1]>> \o SubSeq(MacOff, 3, 6)

(* rtw8852b_pwr_off_func. *)
OffSeq == AnalogOff \o MacOff

Steps == IF seq = "on" THEN OnSeq ELSE OffSeq
Now   == Steps[pos]

(* What the sequences write through XTAL SI, and the fields.               *)
Analog ==
    {"GND_SHDN", "SHDN", "OFF_WEI", "OFF_EI", "ANAPAR4", "PON_WEI", "SRAM2RFC",
     "SRAM_DIS", "LDO_LPS", "LPS_CAP", "RF00", "RF10"}
Fields == {"C1_L1", "C3_L1", "EESK_FUNC_SEL", "REG_ZCDC_H"}

Init ==
    /\ call = "none" /\ seq = "on" /\ pos = 1 /\ retried = FALSE
    /\ result = "none" /\ last = "none" /\ calls = 0
    /\ flags = {} /\ mac \in {"up", "down"}
    /\ \E bits \in SUBSET {"RDY_SYSPWR", "ONMAC", "OFFMAC"}, left \in {{}, Analog \cup Fields} :
        chip = bits \cup left
    /\ lateOff = ("OFFMAC" \in chip)

(***************************************************************************)
(* Calls. The chip starts as an earlier load of the kext, or another       *)
(* system, has left it. The timer handler switches on what it knows to be  *)
(* off; nothing in the repository switches off, so pwr_off may come at any *)
(* time after that.                                                        *)
(***************************************************************************)
Enter(f, s) ==
    /\ call = "none" /\ calls < MaxCalls
    /\ call' = f /\ seq' = s /\ pos' = 1 /\ retried' = FALSE
    /\ calls' = calls + 1 /\ last' = f
    /\ UNCHANGED <<result, flags, chip, mac, lateOff>>

PwrOn  == "POWERON" \notin flags /\ Enter("pwr_on", "on")
PwrOff == "POWERON" \in flags /\ Enter("pwr_off", "off")

(* A new load of the kext allocates a new rtw89_dev; the chip stays as it  *)
(* is.                                                                     *)
Reload ==
    /\ call = "none" /\ flags # {}
    /\ flags' = {}
    /\ UNCHANGED <<callVars, chip, mac, lateOff>>

(* Elsewhere: a firmware download on a chip that is on.                    *)
FwReady ==
    /\ call = "none" /\ "POWERON" \in flags
    /\ flags' = flags \cup {"FW_RDY"}
    /\ UNCHANGED <<callVars, chip, mac, lateOff>>

(***************************************************************************)
(* One step of a sequence, and its end.                                    *)
(***************************************************************************)
Running == call # "none" /\ pos <= Len(Steps)

Write(w) ==
    chip' = CASE w.op = "set"  -> chip \cup {w.bit}
              [] w.op = "clr"  -> chip \ {w.bit}
              [] w.op = "xtal" -> (chip \ w.mask) \cup (w.data \cap w.mask)

(* A plain write, or a write through XTAL SI whose poll succeeds.          *)
Step ==
    /\ Running /\ Now.op \in {"set", "clr", "xtal"}
    /\ Write(Now)
    /\ pos' = pos + 1
    /\ UNCHANGED <<call, seq, retried, result, last, calls, flags, mac, lateOff>>

PollSees ==
    /\ Running /\ Now.op \in {"until", "while"}
    /\ (Now.bit \in chip) = (Now.op = "until")
    /\ pos' = pos + 1
    /\ UNCHANGED <<call, seq, retried, result, last, calls, flags, chip, mac, lateOff>>

Return(r) == call' = "none" /\ result' = r /\ UNCHANGED <<seq, pos, retried, last, calls>>

(* Mutant: the next sequence goes on where the last one stopped.           *)
BeginKeepsPos(s) == seq' = s /\ UNCHANGED <<call, pos, result, last, calls>>

Begin(s) == seq' = s /\ pos' = 1 /\ UNCHANGED <<call, result, last, calls>>

(* Mutant: the power switch retries for as long as it fails.               *)
FailedForever ==
    /\ Begin(IF seq = "on" THEN "off" ELSE "on") /\ retried' = TRUE

(* What rtw89_mac_pwr_on and rtw89_mac_pwr_off make of a sequence that has *)
(* failed: the first failure of pwr_on is answered by a power off, whose   *)
(* result is dropped, and a second power on.                               *)
Failed ==
    CASE call = "pwr_on" /\ seq = "on" /\ ~retried -> Begin("off") /\ retried' = TRUE
      [] call = "pwr_on" /\ seq = "off"            -> Begin("on") /\ UNCHANGED retried
      [] OTHER                                     -> Return("fail")

(* A poll, or the poll of an XTAL SI write, runs out; the XTAL SI command  *)
(* may have been carried out all the same.                                 *)
PollTimesOut ==
    /\ Running /\ Now.op \notin {"set", "clr"}
    /\ IF Now.op = "xtal"
       THEN Write(Now) \/ UNCHANGED chip
       ELSE (Now.bit \in chip) # (Now.op = "until") /\ UNCHANGED chip
    /\ lateOff' = (lateOff \/ Now.bit = "OFFMAC")
    /\ Failed
    /\ UNCHANGED <<flags, mac>>

PowerFlags == {"POWERON", "DMAC_FUNC", "CMAC0_FUNC"}

(* The sequence is complete: the flags follow, and after the power off of  *)
(* the retry comes the second power on.                                    *)
Completed ==
    /\ call # "none" /\ pos > Len(Steps)
    /\ flags' = IF seq = "on" THEN flags \cup PowerFlags ELSE flags \ (PowerFlags \cup {"FW_RDY"})
    /\ IF call = "pwr_on" /\ seq = "off" THEN Begin("on") /\ UNCHANGED retried ELSE Return("ok")
    /\ UNCHANGED <<chip, mac, lateOff>>

(***************************************************************************)
(* The hardware (external).                                                *)
(***************************************************************************)
Serve(request, state) ==
    /\ request \in chip
    /\ chip' = chip \ {request} /\ mac' = state
    /\ UNCHANGED <<callVars, flags, lateOff>>

PowerGood ==
    /\ "RDY_SYSPWR" \notin chip
    /\ chip' = chip \cup {"RDY_SYSPWR"}
    /\ UNCHANGED <<callVars, flags, mac, lateOff>>

Hardware == Serve("ONMAC", "up") \/ Serve("OFFMAC", "down") \/ PowerGood

Sequence == Step \/ PollSees \/ PollTimesOut \/ Completed

Next == PwrOn \/ PwrOff \/ Reload \/ FwReady \/ Sequence \/ Hardware

Spec == Init /\ [][Next]_vars

(* A call runs on: its waits are polls with a budget.                      *)
FairSpec == Spec /\ WF_vars(Sequence)

(***************************************************************************)
(* Properties.                                                             *)
(***************************************************************************)
TypeOK ==
    /\ call \in {"none", "pwr_on", "pwr_off"} /\ last \in {"none", "pwr_on", "pwr_off"}
    /\ seq \in {"on", "off"} /\ pos \in 1..Len(Steps) + 1
    /\ retried \in BOOLEAN /\ lateOff \in BOOLEAN
    /\ result \in {"none", "ok", "fail"} /\ calls \in 0..MaxCalls
    /\ flags \subseteq PowerFlags \cup {"FW_RDY"}
    /\ mac \in {"up", "down"}

(* A chip flagged as powered on is up, also when a power off has given up  *)
(* half way or the power on needed its retry, unless a power-off request   *)
(* was left pending by a timeout (mac.c:100-117).                          *)
PoweredMeansUp == call = "none" /\ ~lateOff /\ "POWERON" \in flags => mac = "up"

(* A power off that returned 0 has brought the chip down, and nothing of   *)
(* an earlier, abandoned power on brings it up again (mac.c:108-117).      *)
OffMeansDown ==
    call = "none" /\ last = "pwr_off" /\ result = "ok" => mac = "down" /\ "ONMAC" \notin chip

(* Flags and results tell the truth about the chip's power.                *)
PowerAsTold == PoweredMeansUp /\ OffMeansDown

(* No call takes back an analog switch: the writes of the two sequences    *)
(* meant to clear a bit pass it as data under an empty mask (mac.c:14-17,  *)
(* rtw8852b.c:230-263), so a chip that was powered off keeps what the      *)
(* power on had connected.                                                 *)
AnalogStaysOn == [][chip \cap Analog \subseteq chip']_vars

(* A powered chip has zero in every field above the lowest bit of its      *)
(* register, whatever it had before and whatever value was meant for it    *)
(* (rtw89.h:307-312).                                                      *)
FieldsAsMasked ==
    "POWERON" \in flags => chip \cap {"C1_L1", "C3_L1", "EESK_FUNC_SEL"} = {"C1_L1"}

(* Every call returns: the retry does not feed itself (mac.c:124-136).     *)
CallReturns == call # "none" ~> call = "none"
=============================================================================
