-------------------------- MODULE PowerSwitchProofs ---------------------------
(***************************************************************************)
(* Proofs about PowerSwitch for any number of calls, whatever the chip was *)
(* left in and whenever it serves a request.                               *)
(***************************************************************************)
EXTENDS PowerSwitch, TLAPS

(* The requests and the fields a reader of the two sequences looks for.    *)
Marked == {"ONMAC", "OFFMAC", "C1_L1", "C3_L1", "EESK_FUNC_SEL"}

(* A step that changes none of them, and clears no analog switch.          *)
Quiet(w) ==
    /\ w.op \in {"set", "clr", "until", "while", "xtal"}
    /\ w.op \in {"set", "clr"} => w.bit \notin Marked \cup Analog
    /\ w.op \in {"until", "while"} => w.bit # "OFFMAC"
    /\ w.op = "xtal" => w.bit = "CMD_POLL" /\ w.mask \subseteq w.data /\ w.mask \subseteq Analog

-----------------------------------------------------------------------------
(***************************************************************************)
(* The sequences.                                                          *)
(***************************************************************************)
LEMMA QuietSteps ==
  /\ \A b : b \notin Marked \cup Analog => Quiet(SetBit(b)) /\ Quiet(ClrBit(b))
  /\ \A b : b # "OFFMAC" => Quiet(Until(b)) /\ Quiet(While(b))
  /\ \A b \in Analog : Quiet(XtalSet(b)) /\ Quiet(XtalClr(b))
<1>1. \A b : b \notin Marked \cup Analog => Quiet(SetBit(b)) /\ Quiet(ClrBit(b))
  BY DEF Quiet, SetBit, ClrBit
<1>2. \A b : b # "OFFMAC" => Quiet(Until(b)) /\ Quiet(While(b))
  BY DEF Quiet, Until, While
<1>3. \A b \in Analog : Quiet(XtalSet(b)) /\ Quiet(XtalClr(b))
  BY DEF Quiet, XtalSet, XtalClr, Xtal
<1>4. QED
  BY <1>1, <1>2, <1>3

(* Of a field below which there are others nothing arrives.                *)
LEMMA FieldValues ==
  /\ Field("C1_L1", 1, 1) = SetBit("C1_L1")
  /\ Field("C3_L1", Bit8, 3) = ClrBit("C3_L1")
  /\ Field("EESK_FUNC_SEL", Bit20, 1) = ClrBit("EESK_FUNC_SEL")
  /\ Field("REG_ZCDC_H", Bit28, 3) = ClrBit("REG_ZCDC_H")
<1>1. 1 \div 1 # 0
  BY SMT
<1>2. 3 \div Bit8 = 0
  BY SMT DEF Bit8
<1>3. 1 \div Bit20 = 0
  BY SMT DEF Bit20
<1>4. 3 \div Bit28 = 0
  BY SMT DEF Bit28
<1>5. QED
  BY <1>1, <1>2, <1>3, <1>4, Zenon DEF Field

(* The steps of all parts.                                                 *)
Instrs ==
    UNION {{Wake[i] : i \in 1..8}, {SpsDigOff[i] : i \in 1..2}, {MacOn[i] : i \in 1..3},
           {Platform[i] : i \in 1..6}, {AnalogOn[i] : i \in 1..13}, {Isolation[i] : i \in 1..5},
           {Functions[i] : i \in 1..3}, {AnalogOff[i] : i \in 1..15}, {MacOff[i] : i \in 1..6}}

LEMMA Longer == ASSUME NEW S, NEW T, S \subseteq T, NEW s \in Seq(S) PROVE s \in Seq(T)
OBVIOUS

LEMMA PartTypes ==
  /\ Wake \in Seq(Instrs)
  /\ SpsDigOff \in Seq(Instrs)
  /\ MacOn \in Seq(Instrs)
  /\ Platform \in Seq(Instrs)
  /\ AnalogOn \in Seq(Instrs)
  /\ Isolation \in Seq(Instrs)
  /\ Functions \in Seq(Instrs)
  /\ AnalogOff \in Seq(Instrs)
  /\ MacOff \in Seq(Instrs)
<1>1. Wake \in Seq(Instrs)
  <2>1. Wake \in Seq({Wake[i] : i \in 1..8})
    BY DEF Wake
  <2>2. {Wake[i] : i \in 1..8} \subseteq Instrs
    BY Zenon DEF Instrs
  <2>3. QED
    BY <2>1, <2>2, Longer, Zenon
<1>2. SpsDigOff \in Seq(Instrs)
  <2>1. SpsDigOff \in Seq({SpsDigOff[i] : i \in 1..2})
    BY DEF SpsDigOff
  <2>2. {SpsDigOff[i] : i \in 1..2} \subseteq Instrs
    BY Zenon DEF Instrs
  <2>3. QED
    BY <2>1, <2>2, Longer, Zenon
<1>3. MacOn \in Seq(Instrs)
  <2>1. MacOn \in Seq({MacOn[i] : i \in 1..3})
    BY DEF MacOn
  <2>2. {MacOn[i] : i \in 1..3} \subseteq Instrs
    BY Zenon DEF Instrs
  <2>3. QED
    BY <2>1, <2>2, Longer, Zenon
<1>4. Platform \in Seq(Instrs)
  <2>1. Platform \in Seq({Platform[i] : i \in 1..6})
    BY DEF Platform
  <2>2. {Platform[i] : i \in 1..6} \subseteq Instrs
    BY Zenon DEF Instrs
  <2>3. QED
    BY <2>1, <2>2, Longer, Zenon
<1>5. AnalogOn \in Seq(Instrs)
  <2>1. AnalogOn \in Seq({AnalogOn[i] : i \in 1..13})
    BY DEF AnalogOn
  <2>2. {AnalogOn[i] : i \in 1..13} \subseteq Instrs
    BY Zenon DEF Instrs
  <2>3. QED
    BY <2>1, <2>2, Longer, Zenon
<1>6. Isolation \in Seq(Instrs)
  <2>1. Isolation \in Seq({Isolation[i] : i \in 1..5})
    BY DEF Isolation
  <2>2. {Isolation[i] : i \in 1..5} \subseteq Instrs
    BY Zenon DEF Instrs
  <2>3. QED
    BY <2>1, <2>2, Longer, Zenon
<1>7. Functions \in Seq(Instrs)
  <2>1. Functions \in Seq({Functions[i] : i \in 1..3})
    BY DEF Functions
  <2>2. {Functions[i] : i \in 1..3} \subseteq Instrs
    BY Zenon DEF Instrs
  <2>3. QED
    BY <2>1, <2>2, Longer, Zenon
<1>8. AnalogOff \in Seq(Instrs)
  <2>1. AnalogOff \in Seq({AnalogOff[i] : i \in 1..15})
    BY DEF AnalogOff
  <2>2. {AnalogOff[i] : i \in 1..15} \subseteq Instrs
    BY Zenon DEF Instrs
  <2>3. QED
    BY <2>1, <2>2, Longer, Zenon
<1>9. MacOff \in Seq(Instrs)
  <2>1. MacOff \in Seq({MacOff[i] : i \in 1..6})
    BY DEF MacOff
  <2>2. {MacOff[i] : i \in 1..6} \subseteq Instrs
    BY Zenon DEF Instrs
  <2>3. QED
    BY <2>1, <2>2, Longer, Zenon
<1>10. QED
  BY <1>1, <1>2, <1>3, <1>4, <1>5, <1>6, <1>7, <1>8, <1>9

LEMMA Concatenated ==
  ASSUME NEW s \in Seq(Instrs), NEW t \in Seq(Instrs)
  PROVE  /\ s \o t \in Seq(Instrs) /\ Len(s \o t) = Len(s) + Len(t)
         /\ \A i \in 1..Len(s) : (s \o t)[i] = s[i]
         /\ \A i \in 1..Len(t) : (s \o t)[Len(s) + i] = t[i]
OBVIOUS

LEMMA Parts ==
  /\ Len(Wake) = 8 /\ \A i \in 1..8 : Quiet(Wake[i])
  /\ Len(Platform) = 6 /\ \A i \in 1..6 : Quiet(Platform[i])
  /\ Len(AnalogOn) = 13 /\ \A i \in 1..13 : Quiet(AnalogOn[i])
  /\ Len(Isolation) = 5 /\ \A i \in 1..5 : Quiet(Isolation[i])
  /\ Len(AnalogOff) = 15 /\ \A i \in 1..15 : Quiet(AnalogOff[i])
<1> USE DEF Quiet, SetBit, ClrBit, Until, While, XtalSet, XtalClr, Xtal, Marked, Analog
<1>1. Len(Wake) = 8 /\ \A i \in 1..8 : Quiet(Wake[i])
  BY DEF Wake
<1>2. Len(Platform) = 6 /\ \A i \in 1..6 : Quiet(Platform[i])
  BY DEF Platform
<1>3. Len(AnalogOn) = 13 /\ \A i \in 1..13 : Quiet(AnalogOn[i])
  BY DEF AnalogOn
<1>4. Len(Isolation) = 5 /\ \A i \in 1..5 : Quiet(Isolation[i])
  BY DEF Isolation
<1>5. Len(AnalogOff) = 15 /\ \A i \in 1..15 : Quiet(AnalogOff[i])
  BY DEF AnalogOff
<1>6. QED
  BY <1>1, <1>2, <1>3, <1>4, <1>5

LEMMA OnParts ==
  /\ Len(SpsDigOff) = 2 /\ SpsDigOff[1] = SetBit("C1_L1") /\ SpsDigOff[2] = ClrBit("C3_L1")
  /\ Len(MacOn) = 3 /\ Quiet(MacOn[1]) /\ MacOn[2] = SetBit("ONMAC") /\ MacOn[3] = While("ONMAC")
  /\ Len(Functions) = 3 /\ Quiet(Functions[1]) /\ Quiet(Functions[2])
  /\ Functions[3] = ClrBit("EESK_FUNC_SEL")
<1>1. Len(SpsDigOff) = 2 /\ SpsDigOff[1] = SetBit("C1_L1") /\ SpsDigOff[2] = ClrBit("C3_L1")
  BY FieldValues DEF SpsDigOff
<1>2. Len(MacOn) = 3 /\ Quiet(MacOn[1]) /\ MacOn[2] = SetBit("ONMAC") /\ MacOn[3] = While("ONMAC")
  BY QuietSteps DEF MacOn, Marked, Analog
<1>3. /\ Len(Functions) = 3 /\ Quiet(Functions[1]) /\ Quiet(Functions[2])
      /\ Functions[3] = ClrBit("EESK_FUNC_SEL")
  BY QuietSteps, FieldValues DEF Functions, Marked, Analog
<1>4. QED
  BY <1>1, <1>2, <1>3

LEMMA OffParts ==
  /\ Len(MacOff) = 6 /\ MacOff[1] = SetBit("OFFMAC") /\ MacOff[2] = While("OFFMAC")
  /\ \A i \in 3..6 : Quiet(MacOff[i]) /\ MacOff[i].op \in {"set", "clr"}
<1>1. /\ Len(MacOff) = 6 /\ MacOff[1] = SetBit("OFFMAC") /\ MacOff[2] = While("OFFMAC")
      /\ MacOff[3] = SetBit("LPSEN") /\ MacOff[4] = SetBit("PWMFREQ")
      /\ MacOff[5] = ClrBit("REG_ZCDC_H") /\ MacOff[6] = SetBit("SWLPS")
  BY FieldValues DEF MacOff
<1>2. /\ Quiet(SetBit("LPSEN")) /\ Quiet(SetBit("PWMFREQ")) /\ Quiet(SetBit("SWLPS"))
      /\ Quiet(ClrBit("REG_ZCDC_H"))
  BY QuietSteps DEF Marked, Analog
<1>3. QED
  BY <1>1, <1>2 DEF SetBit, ClrBit

LEMMA OnFacts ==
  /\ Len(OnSeq) = 40
  /\ OnSeq[9] = SetBit("C1_L1") /\ OnSeq[10] = ClrBit("C3_L1")
  /\ OnSeq[12] = SetBit("ONMAC") /\ OnSeq[13] = While("ONMAC")
  /\ OnSeq[40] = ClrBit("EESK_FUNC_SEL")
  /\ \A i \in 1..40 \ {9, 10, 12, 13, 40} : Quiet(OnSeq[i])
<1> DEFINE s1 == Wake \o SpsDigOff
           s2 == s1 \o MacOn
           s3 == s2 \o Platform
           s4 == s3 \o AnalogOn
           s5 == s4 \o Isolation
           s6 == s5 \o Functions
<1>1. /\ s1 \in Seq(Instrs) /\ Len(s1) = 10
      /\ \A i \in 1..8 : s1[i] = Wake[i]
      /\ \A i \in 1..2 : s1[8 + i] = SpsDigOff[i]
  <2>1. Wake \in Seq(Instrs) /\ SpsDigOff \in Seq(Instrs)
    BY PartTypes
  <2>2. /\ s1 \in Seq(Instrs) /\ Len(s1) = Len(Wake) + Len(SpsDigOff)
        /\ \A i \in 1..Len(Wake) : s1[i] = Wake[i]
        /\ \A i \in 1..Len(SpsDigOff) : s1[Len(Wake) + i] = SpsDigOff[i]
    BY <2>1, Concatenated
  <2> HIDE DEF s1
  <2>3. QED
    BY <2>2, Parts, OnParts
<1> HIDE DEF s1
<1>2. /\ s2 \in Seq(Instrs) /\ Len(s2) = 13
      /\ \A i \in 1..10 : s2[i] = s1[i]
      /\ \A i \in 1..3 : s2[10 + i] = MacOn[i]
  <2>1. s1 \in Seq(Instrs) /\ MacOn \in Seq(Instrs)
    BY <1>1, PartTypes
  <2>2. /\ s2 \in Seq(Instrs) /\ Len(s2) = Len(s1) + Len(MacOn)
        /\ \A i \in 1..Len(s1) : s2[i] = s1[i]
        /\ \A i \in 1..Len(MacOn) : s2[Len(s1) + i] = MacOn[i]
    BY <2>1, Concatenated
  <2> HIDE DEF s2
  <2>3. QED
    BY <1>1, <2>2, Parts, OnParts
<1> HIDE DEF s2
<1>3. /\ s3 \in Seq(Instrs) /\ Len(s3) = 19
      /\ \A i \in 1..13 : s3[i] = s2[i]
      /\ \A i \in 1..6 : s3[13 + i] = Platform[i]
  <2>1. s2 \in Seq(Instrs) /\ Platform \in Seq(Instrs)
    BY <1>2, PartTypes
  <2>2. /\ s3 \in Seq(Instrs) /\ Len(s3) = Len(s2) + Len(Platform)
        /\ \A i \in 1..Len(s2) : s3[i] = s2[i]
        /\ \A i \in 1..Len(Platform) : s3[Len(s2) + i] = Platform[i]
    BY <2>1, Concatenated
  <2> HIDE DEF s3
  <2>3. QED
    BY <1>2, <2>2, Parts, OnParts
<1> HIDE DEF s3
<1>4. /\ s4 \in Seq(Instrs) /\ Len(s4) = 32
      /\ \A i \in 1..19 : s4[i] = s3[i]
      /\ \A i \in 1..13 : s4[19 + i] = AnalogOn[i]
  <2>1. s3 \in Seq(Instrs) /\ AnalogOn \in Seq(Instrs)
    BY <1>3, PartTypes
  <2>2. /\ s4 \in Seq(Instrs) /\ Len(s4) = Len(s3) + Len(AnalogOn)
        /\ \A i \in 1..Len(s3) : s4[i] = s3[i]
        /\ \A i \in 1..Len(AnalogOn) : s4[Len(s3) + i] = AnalogOn[i]
    BY <2>1, Concatenated
  <2> HIDE DEF s4
  <2>3. QED
    BY <1>3, <2>2, Parts, OnParts
<1> HIDE DEF s4
<1>5. /\ s5 \in Seq(Instrs) /\ Len(s5) = 37
      /\ \A i \in 1..32 : s5[i] = s4[i]
      /\ \A i \in 1..5 : s5[32 + i] = Isolation[i]
  <2>1. s4 \in Seq(Instrs) /\ Isolation \in Seq(Instrs)
    BY <1>4, PartTypes
  <2>2. /\ s5 \in Seq(Instrs) /\ Len(s5) = Len(s4) + Len(Isolation)
        /\ \A i \in 1..Len(s4) : s5[i] = s4[i]
        /\ \A i \in 1..Len(Isolation) : s5[Len(s4) + i] = Isolation[i]
    BY <2>1, Concatenated
  <2> HIDE DEF s5
  <2>3. QED
    BY <1>4, <2>2, Parts, OnParts
<1> HIDE DEF s5
<1>6. /\ s6 \in Seq(Instrs) /\ Len(s6) = 40
      /\ \A i \in 1..37 : s6[i] = s5[i]
      /\ \A i \in 1..3 : s6[37 + i] = Functions[i]
  <2>1. s5 \in Seq(Instrs) /\ Functions \in Seq(Instrs)
    BY <1>5, PartTypes
  <2>2. /\ s6 \in Seq(Instrs) /\ Len(s6) = Len(s5) + Len(Functions)
        /\ \A i \in 1..Len(s5) : s6[i] = s5[i]
        /\ \A i \in 1..Len(Functions) : s6[Len(s5) + i] = Functions[i]
    BY <2>1, Concatenated
  <2> HIDE DEF s6
  <2>3. QED
    BY <1>5, <2>2, Parts, OnParts
<1> HIDE DEF s6
<1>7. OnSeq = s6
  BY Zenon DEF OnSeq, s1, s2, s3, s4, s5, s6
<1>8. /\ \A i \in 1..8 : s6[i] = Wake[i]
      /\ s6[9] = SpsDigOff[1] /\ s6[10] = SpsDigOff[2]
      /\ s6[11] = MacOn[1] /\ s6[12] = MacOn[2] /\ s6[13] = MacOn[3]
  <2>1. ASSUME NEW i \in 1..13 PROVE s6[i] = s2[i]
    <3>1. i \in 1..19 /\ i \in 1..32 /\ i \in 1..37
      OBVIOUS
    <3>2. s3[i] = s2[i]
      BY <1>3, Zenon
    <3>3. s6[i] = s5[i] /\ s5[i] = s4[i] /\ s4[i] = s3[i]
      BY <1>4, <1>5, <1>6, <3>1, Zenon
    <3>4. QED
      BY <3>2, <3>3, Zenon
  <2>2. \A i \in 1..10 : s2[i] = s1[i]
    BY <1>2
  <2>3. s2[10 + 1] = MacOn[1] /\ s2[10 + 2] = MacOn[2] /\ s2[10 + 3] = MacOn[3]
    BY <1>2
  <2>4. s1[8 + 1] = SpsDigOff[1] /\ s1[8 + 2] = SpsDigOff[2]
    BY <1>1
  <2>5. QED
    BY <1>1, <2>1, <2>2, <2>3, <2>4
<1>9. \A i \in 14..37 : Quiet(s6[i])
  <2>1. ASSUME NEW i \in 14..19 PROVE Quiet(s6[i])
    <3>1. i \in 1..19 /\ i \in 1..32 /\ i \in 1..37
      OBVIOUS
    <3>2. s4[i] = s3[i] /\ s5[i] = s4[i] /\ s6[i] = s5[i]
      BY <1>4, <1>5, <1>6, <3>1, Zenon
    <3>3. PICK j \in 1..6 : i = 13 + j
      <4>1. i - 13 \in 1..6 /\ i = 13 + (i - 13)
        OBVIOUS
      <4>2. QED
        BY <4>1, Zenon
    <3>4. s3[i] = Platform[j] /\ Quiet(Platform[j])
      BY <1>3, <3>3, Parts, Zenon
    <3>5. QED
      BY <3>2, <3>4, Zenon
  <2>2. ASSUME NEW i \in 20..32 PROVE Quiet(s6[i])
    <3>1. i \in 1..32 /\ i \in 1..37
      OBVIOUS
    <3>2. s5[i] = s4[i] /\ s6[i] = s5[i]
      BY <1>5, <1>6, <3>1, Zenon
    <3>3. PICK j \in 1..13 : i = 19 + j
      <4>1. i - 19 \in 1..13 /\ i = 19 + (i - 19)
        OBVIOUS
      <4>2. QED
        BY <4>1, Zenon
    <3>4. s4[i] = AnalogOn[j] /\ Quiet(AnalogOn[j])
      BY <1>4, <3>3, Parts, Zenon
    <3>5. QED
      BY <3>2, <3>4, Zenon
  <2>3. ASSUME NEW i \in 33..37 PROVE Quiet(s6[i])
    <3>1. i \in 1..37
      OBVIOUS
    <3>2. s6[i] = s5[i]
      BY <1>6, <3>1, Zenon
    <3>3. PICK j \in 1..5 : i = 32 + j
      <4>1. i - 32 \in 1..5 /\ i = 32 + (i - 32)
        OBVIOUS
      <4>2. QED
        BY <4>1, Zenon
    <3>4. s5[i] = Isolation[j] /\ Quiet(Isolation[j])
      BY <1>5, <3>3, Parts, Zenon
    <3>5. QED
      BY <3>2, <3>4, Zenon
  <2>4. QED
    BY <2>1, <2>2, <2>3
<1>10. s6[37 + 1] = Functions[1] /\ s6[37 + 2] = Functions[2] /\ s6[37 + 3] = Functions[3]
  BY <1>6
<1>11. s6[38] = Functions[1] /\ s6[39] = Functions[2] /\ s6[40] = Functions[3]
  BY <1>10
<1>12. ASSUME NEW i \in 1..40 \ {9, 10, 12, 13, 40} PROVE Quiet(s6[i])
  <2>1. i \in 1..8 \/ i = 11 \/ i \in 14..37 \/ i = 38 \/ i = 39
    OBVIOUS
  <2>2. QED
    BY <1>8, <1>9, <1>11, <2>1, Parts, OnParts
<1>13. QED
  BY <1>6, <1>7, <1>8, <1>11, <1>12, OnParts

LEMMA OffFacts ==
  /\ Len(OffSeq) = 21
  /\ OffSeq[16] = SetBit("OFFMAC") /\ OffSeq[17] = While("OFFMAC")
  /\ \A i \in 1..21 \ {16, 17} : Quiet(OffSeq[i])
  /\ \A i \in 18..21 : OffSeq[i].op \in {"set", "clr"}
<1>1. /\ Len(OffSeq) = 21
      /\ \A i \in 1..15 : OffSeq[i] = AnalogOff[i]
      /\ \A i \in 1..6 : OffSeq[15 + i] = MacOff[i]
  <2>1. /\ Len(OffSeq) = Len(AnalogOff) + Len(MacOff)
        /\ \A i \in 1..Len(AnalogOff) : OffSeq[i] = AnalogOff[i]
        /\ \A i \in 1..Len(MacOff) : OffSeq[Len(AnalogOff) + i] = MacOff[i]
    BY Concatenated, PartTypes DEF OffSeq
  <2>2. QED
    BY <2>1, Parts, OffParts
<1>2. OffSeq[15 + 1] = MacOff[1] /\ OffSeq[15 + 2] = MacOff[2]
  BY <1>1
<1>3. OffSeq[16] = MacOff[1] /\ OffSeq[17] = MacOff[2]
  BY <1>2
<1>4. ASSUME NEW i \in 18..21
      PROVE  Quiet(OffSeq[i]) /\ OffSeq[i].op \in {"set", "clr"}
  <2>1. i - 15 \in 3..6 /\ i - 15 \in 1..6 /\ i = 15 + (i - 15)
    OBVIOUS
  <2>2. OffSeq[i] = MacOff[i - 15]
    BY <1>1, <2>1
  <2>3. QED
    BY <2>1, <2>2, OffParts
<1>5. ASSUME NEW i \in 1..15 PROVE Quiet(OffSeq[i])
  BY <1>1, Parts
<1>6. ASSUME NEW i \in 1..21 \ {16, 17} PROVE Quiet(OffSeq[i])
  <2>1. i \in 1..15 \/ i \in 18..21
    OBVIOUS
  <2>2. QED
    BY <1>4, <1>5, <2>1
<1>7. QED
  BY <1>1, <1>3, <1>4, <1>6, OffParts

-----------------------------------------------------------------------------
(***************************************************************************)
(* What a step does to the chip.                                           *)
(***************************************************************************)
Same(b) == b \in chip' <=> b \in chip

LEMMA QuietWrite ==
  ASSUME NEW w, Quiet(w), Write(w), w.op \in {"set", "clr", "xtal"}
  PROVE  /\ \A b \in Marked : Same(b)
         /\ chip \cap Analog \subseteq chip'
<1> USE DEF Quiet, Write, Marked, Same
<1>1. CASE w.op = "set"
  BY <1>1
<1>2. CASE w.op = "clr"
  BY <1>2
<1>3. CASE w.op = "xtal"
  BY <1>3 DEF Analog
<1>4. QED
  BY <1>1, <1>2, <1>3

LEMMA OnWrite ==
  ASSUME seq = "on", pos \in 1..40, Now.op \in {"set", "clr", "xtal"}, Write(Now)
  PROVE  /\ pos # 13 /\ chip \cap Analog \subseteq chip' /\ Same("OFFMAC")
         /\ "ONMAC" \in chip' <=> "ONMAC" \in chip \/ pos = 12
         /\ "C1_L1" \in chip' <=> "C1_L1" \in chip \/ pos = 9
         /\ "C3_L1" \in chip' <=> "C3_L1" \in chip /\ pos # 10
         /\ "EESK_FUNC_SEL" \in chip' <=> "EESK_FUNC_SEL" \in chip /\ pos # 40
<1>1. Now = OnSeq[pos]
  BY DEF Now, Steps
<1>2. CASE pos \in {9, 10, 12, 13, 40}
  BY <1>1, <1>2, OnFacts DEF Write, SetBit, ClrBit, While, Same, Analog
<1>3. CASE pos \notin {9, 10, 12, 13, 40}
  <2>1. Quiet(Now)
    BY <1>1, <1>3, OnFacts
  <2>2. (\A b \in Marked : Same(b)) /\ chip \cap Analog \subseteq chip'
    BY <2>1, QuietWrite
  <2>3. QED
    BY <1>3, <2>2 DEF Marked, Same
<1>4. QED
  BY <1>2, <1>3

LEMMA OffWrite ==
  ASSUME seq = "off", pos \in 1..21, Now.op \in {"set", "clr", "xtal"}, Write(Now)
  PROVE  /\ pos # 17 /\ chip \cap Analog \subseteq chip'
         /\ \A b \in Marked \ {"OFFMAC"} : Same(b)
         /\ "OFFMAC" \in chip' <=> "OFFMAC" \in chip \/ pos = 16
<1>1. Now = OffSeq[pos]
  BY DEF Now, Steps
<1>2. CASE pos \in {16, 17}
  BY <1>1, <1>2, OffFacts DEF Write, SetBit, While, Same, Analog
<1>3. CASE pos \notin {16, 17}
  <2>1. Quiet(Now)
    BY <1>1, <1>3, OffFacts
  <2>2. (\A b \in Marked : Same(b)) /\ chip \cap Analog \subseteq chip'
    BY <2>1, QuietWrite
  <2>3. QED
    BY <1>3, <2>2 DEF Marked, Same
<1>4. QED
  BY <1>2, <1>3

LEMMA OnPoll ==
  ASSUME seq = "on", pos \in 1..40, Now.op \in {"until", "while"},
         (Now.bit \in chip) = (Now.op = "until")
  PROVE  /\ pos = 13 => "ONMAC" \notin chip
         /\ pos \notin {9, 10, 12, 40}
<1>1. Now = OnSeq[pos]
  BY DEF Now, Steps
<1>2. QED
  BY <1>1, OnFacts DEF SetBit, ClrBit, While

LEMMA OffPoll ==
  ASSUME seq = "off", pos \in 1..21, Now.op \in {"until", "while"},
         (Now.bit \in chip) = (Now.op = "until")
  PROVE  pos <= 17 /\ (pos = 17 => "OFFMAC" \notin chip) /\ pos # 16
<1>1. Now = OffSeq[pos]
  BY DEF Now, Steps
<1>2. QED
  BY <1>1, OffFacts DEF SetBit, While

(* A step at which a poll can run out.                                     *)
LEMMA Abandoned ==
  ASSUME seq \in {"on", "off"}, pos \in 1..Len(Steps), Now.op \notin {"set", "clr"},
         IF Now.op = "xtal"
         THEN Write(Now) \/ UNCHANGED chip
         ELSE (Now.bit \in chip) # (Now.op = "until") /\ UNCHANGED chip
  PROVE  /\ \A b \in Marked : Same(b)
         /\ chip \cap Analog \subseteq chip'
         /\ seq = "off" => pos <= 17 /\ (pos = 17 <=> Now.bit = "OFFMAC")
         /\ seq = "on" => Now.bit # "OFFMAC"
<1>1. CASE seq = "on"
  <2>1. Now = OnSeq[pos] /\ pos \in 1..40
    BY <1>1, OnFacts DEF Now, Steps
  <2>2. CASE pos = 13
    BY <1>1, <2>1, <2>2, OnFacts DEF While, Same
  <2>3. CASE pos # 13
    <3>1. Quiet(Now)
      BY <2>1, <2>3, OnFacts DEF SetBit, ClrBit
    <3>2. QED
      BY <1>1, <3>1, QuietWrite DEF Quiet, Same
  <2>4. QED
    BY <2>2, <2>3
<1>2. CASE seq = "off"
  <2>1. Now = OffSeq[pos] /\ pos \in 1..21
    BY <1>2, OffFacts DEF Now, Steps
  <2>2. CASE pos = 17
    BY <1>2, <2>1, <2>2, OffFacts DEF While, Same
  <2>3. CASE pos # 17
    <3>1. pos # 16
      BY <2>1, OffFacts DEF SetBit
    <3>2. pos \notin 18..21
      BY <2>1, OffFacts
    <3>3. pos <= 17 /\ pos \in 1..21 \ {16, 17}
      BY <2>1, <2>3, <3>1, <3>2
    <3>4. Quiet(Now)
      BY <2>1, <3>3, OffFacts
    <3>5. QED
      BY <1>2, <2>3, <3>3, <3>4, QuietWrite DEF Quiet, Same
  <2>4. QED
    BY <2>2, <2>3
<1>3. QED
  BY <1>1, <1>2

-----------------------------------------------------------------------------
(***************************************************************************)
(* The inductive invariant.                                                *)
(***************************************************************************)
TypesOK ==
    /\ call \in {"none", "pwr_on", "pwr_off"} /\ last \in {"none", "pwr_on", "pwr_off"}
    /\ seq \in {"on", "off"} /\ pos \in 1..Len(Steps) + 1
    /\ result \in {"none", "ok", "fail"} /\ calls \in 0..MaxCalls
    /\ flags \subseteq PowerFlags \cup {"FW_RDY"}
    /\ mac \in {"up", "down"}

BoolOK == retried \in BOOLEAN /\ lateOff \in BOOLEAN

(* A chip flagged as on is switched off, any other on.                     *)
CallInv ==
    /\ call # "none" => last = call
    /\ call = "pwr_on" => "POWERON" \notin flags
    /\ call = "pwr_off" => seq = "off" /\ "POWERON" \in flags

(* Where a request may be pending.                                         *)
RequestInv ==
    /\ ~lateOff /\ "OFFMAC" \in chip => call # "none" /\ seq = "off" /\ pos = 17
    /\ "POWERON" \in flags => "ONMAC" \notin chip
    /\ call = "pwr_on" /\ seq = "on" /\ pos > 13 => "ONMAC" \notin chip

(* What the sequence has made of the MAC so far.                           *)
MacInv ==
    /\ call = "pwr_on" /\ seq = "on" /\ ~lateOff /\ pos >= 13 =>
        mac = "up" \/ (pos = 13 /\ "ONMAC" \in chip)
    /\ call = "pwr_off" /\ ~lateOff /\ pos <= 16 => mac = "up"
    /\ call = "pwr_off" /\ pos = 17 => "OFFMAC" \in chip \/ mac = "down"
    /\ call = "pwr_off" /\ pos > 17 => mac = "down"

(* What it has made of the fields.                                         *)
FieldInv ==
    /\ FieldsAsMasked
    /\ call = "pwr_on" /\ seq = "on" =>
        /\ pos > 9 => "C1_L1" \in chip
        /\ pos > 10 => "C3_L1" \notin chip
        /\ pos > 40 => "EESK_FUNC_SEL" \notin chip

IInv == TypesOK /\ BoolOK /\ CallInv /\ RequestInv /\ MacInv /\ PowerAsTold /\ FieldInv

LEMMA TypeParts == TypesOK /\ BoolOK <=> TypeOK
BY Zenon DEF TypesOK, BoolOK, TypeOK

LEMMA Lengths ==
  /\ Len(Steps) \in {21, 40}
  /\ seq = "on" => Len(Steps) = 40
  /\ seq = "off" => Len(Steps) = 21
BY OnFacts, OffFacts DEF Steps

LEMMA NextLengths ==
  /\ Len(Steps') \in {21, 40}
  /\ seq' = "on" => Len(Steps') = 40
  /\ seq' = "off" => Len(Steps') = 21
BY OnFacts, OffFacts DEF Steps

LEMMA InitInv == Init => IInv
<1> SUFFICES ASSUME Init PROVE IInv
  OBVIOUS
<1>1. BoolOK
  <2>1. ("OFFMAC" \in chip) \in BOOLEAN
    BY SMT
  <2>2. retried = FALSE /\ lateOff = ("OFFMAC" \in chip)
    BY Zenon DEF Init
  <2>3. QED
    BY <2>1, <2>2, Zenon DEF BoolOK
<1>2. TypesOK
  BY Lengths, BoundAssumption DEF Init, TypesOK
<1>3. "OFFMAC" \in chip => lateOff
  BY DEF Init
<1>4. CallInv /\ RequestInv /\ MacInv /\ PowerAsTold /\ FieldInv
  BY <1>3 DEF Init, CallInv, RequestInv, MacInv, PowerAsTold, PoweredMeansUp,
              OffMeansDown, FieldInv, FieldsAsMasked
<1>5. QED
  BY <1>1, <1>2, <1>4 DEF IInv

LEMMA StepKinds ==
  ASSUME [Next]_vars
  PROVE  \/ PwrOn \/ PwrOff \/ Reload \/ FwReady
         \/ Step \/ PollSees \/ PollTimesOut \/ Completed
         \/ Serve("ONMAC", "up") \/ Serve("OFFMAC", "down") \/ PowerGood
         \/ UNCHANGED vars
BY Zenon DEF Next, Sequence, Hardware

LEMMA BoolStep ==
  ASSUME BoolOK, [Next]_vars
  PROVE  BoolOK'
<1> USE DEF BoolOK, callVars
<1>1. CASE PwrOn \/ PwrOff \/ Reload \/ FwReady
  BY <1>1, Zenon DEF PwrOn, PwrOff, Reload, FwReady, Enter
<1>2. CASE Step \/ PollSees
  BY <1>2, Zenon DEF Step, PollSees
<1>3. CASE PollTimesOut
  <2>1. lateOff' \in BOOLEAN
    BY <1>3, Zenon DEF PollTimesOut
  <2>2. retried' = TRUE \/ UNCHANGED retried
    BY <1>3, Zenon DEF PollTimesOut, Failed, Begin, Return
  <2>3. QED
    BY <2>1, <2>2, Zenon
<1>4. CASE Completed
  BY <1>4, Zenon DEF Completed, Begin, Return
<1>5. CASE Serve("ONMAC", "up") \/ Serve("OFFMAC", "down") \/ PowerGood
  BY <1>5, Zenon DEF Serve, PowerGood
<1>6. CASE UNCHANGED vars
  BY <1>6, Zenon DEF vars
<1>7. QED
  BY <1>1, <1>2, <1>3, <1>4, <1>5, <1>6, StepKinds, Zenon

(***************************************************************************)
(* Steps.                                                                  *)
(***************************************************************************)
(* Everything but the types of the booleans.                               *)
Inv == TypesOK /\ CallInv /\ RequestInv /\ MacInv /\ PowerAsTold /\ FieldInv

LEMMA CallStep ==
  ASSUME Inv, BoolOK, PwrOn \/ PwrOff \/ Reload \/ FwReady
  PROVE  Inv'
<1> USE DEF Inv, CallInv, RequestInv, MacInv, PowerAsTold, PoweredMeansUp, OffMeansDown,
            FieldInv, FieldsAsMasked
<1>1. CASE PwrOn \/ PwrOff
  <2>1. TypesOK'
    BY <1>1, NextLengths, BoundAssumption DEF PwrOn, PwrOff, Enter, TypesOK
  <2>2. QED
    BY <1>1, <2>1 DEF PwrOn, PwrOff, Enter
<1>2. CASE Reload \/ FwReady
  <2>1. TypesOK'
    BY <1>2 DEF Reload, FwReady, callVars, TypesOK, PowerFlags, Steps
  <2>2. QED
    BY <1>2, <2>1 DEF Reload, FwReady, callVars
<1>3. QED
  BY <1>1, <1>2

LEMMA HardwareStep ==
  ASSUME Inv, BoolOK, Serve("ONMAC", "up") \/ Serve("OFFMAC", "down") \/ PowerGood
  PROVE  Inv'
<1>1. TypesOK'
  BY DEF Inv, Serve, PowerGood, callVars, TypesOK, Steps
<1>2. QED
  BY <1>1 DEF Inv, Serve, PowerGood, callVars, CallInv, RequestInv, MacInv, PowerAsTold,
              PoweredMeansUp, OffMeansDown, FieldInv, FieldsAsMasked

LEMMA StayStep ==
  ASSUME Inv, UNCHANGED vars
  PROVE  Inv'
<1>1. UNCHANGED <<call, seq, pos, result, last, calls, flags, chip, mac, lateOff>>
  BY DEF vars, callVars
<1>2. TypesOK'
  BY <1>1, Zenon DEF Inv, TypesOK, Steps
<1>3. CallInv' /\ RequestInv' /\ MacInv'
  BY <1>1, Zenon DEF Inv, CallInv, RequestInv, MacInv
<1>4. PowerAsTold' /\ FieldInv'
  BY <1>1, Zenon DEF Inv, PowerAsTold, PoweredMeansUp, OffMeansDown, FieldInv, FieldsAsMasked
<1>5. QED
  BY <1>2, <1>3, <1>4 DEF Inv

(* One step of a sequence.                                                 *)
LEMMA WriteStep ==
  ASSUME Inv, BoolOK, Step
  PROVE  Inv'
<1>1. /\ call # "none" /\ pos \in 1..Len(Steps) /\ pos' = pos + 1
      /\ Now.op \in {"set", "clr", "xtal"} /\ Write(Now)
      /\ UNCHANGED <<call, seq, retried, result, last, calls, flags, mac, lateOff>>
  BY DEF Step, Running, Inv, TypesOK
<1>2. TypesOK'
  BY <1>1 DEF Inv, TypesOK, Steps
<1>3. CASE seq = "on"
  <2>1. /\ pos \in 1..40 /\ pos # 13 /\ Same("OFFMAC")
        /\ "ONMAC" \in chip' <=> "ONMAC" \in chip \/ pos = 12
        /\ "C1_L1" \in chip' <=> "C1_L1" \in chip \/ pos = 9
        /\ "C3_L1" \in chip' <=> "C3_L1" \in chip /\ pos # 10
        /\ "EESK_FUNC_SEL" \in chip' <=> "EESK_FUNC_SEL" \in chip /\ pos # 40
    BY <1>1, <1>3, OnWrite, Lengths
  <2>2. QED
    <3>1. CallInv'
      BY <1>1, <1>3, <2>1 DEF Inv, TypesOK, CallInv, Same
    <3>2. RequestInv'
      BY <1>1, <1>3, <2>1 DEF Inv, TypesOK, CallInv, RequestInv, Same
    <3>3. MacInv'
      BY <1>1, <1>3, <2>1 DEF Inv, TypesOK, CallInv, RequestInv, MacInv, Same
    <3>4. PowerAsTold'
      BY <1>1, <1>3, <2>1
      DEF Inv, TypesOK, CallInv, RequestInv, MacInv, PowerAsTold, PoweredMeansUp,
          OffMeansDown, Same
    <3>5. FieldInv'
      BY <1>1, <1>3, <2>1 DEF Inv, TypesOK, CallInv, FieldInv, FieldsAsMasked, Same
    <3>6. QED
      BY <1>2, <3>1, <3>2, <3>3, <3>4, <3>5 DEF Inv
<1>4. CASE seq = "off"
  <2>1. /\ pos \in 1..21 /\ pos # 17
        /\ Same("ONMAC") /\ Same("C1_L1") /\ Same("C3_L1") /\ Same("EESK_FUNC_SEL")
        /\ "OFFMAC" \in chip' <=> "OFFMAC" \in chip \/ pos = 16
    BY <1>1, <1>4, OffWrite, Lengths DEF Marked
  <2>2. QED
    <3>1. CallInv'
      BY <1>1, <1>4, <2>1 DEF Inv, TypesOK, CallInv, Same
    <3>2. RequestInv'
      BY <1>1, <1>4, <2>1 DEF Inv, TypesOK, CallInv, RequestInv, Same
    <3>3. MacInv'
      BY <1>1, <1>4, <2>1 DEF Inv, TypesOK, CallInv, RequestInv, MacInv, Same
    <3>4. PowerAsTold'
      BY <1>1, <1>4, <2>1
      DEF Inv, TypesOK, CallInv, RequestInv, MacInv, PowerAsTold, PoweredMeansUp,
          OffMeansDown, Same
    <3>5. FieldInv'
      BY <1>1, <1>4, <2>1 DEF Inv, TypesOK, CallInv, FieldInv, FieldsAsMasked, Same
    <3>6. QED
      BY <1>2, <3>1, <3>2, <3>3, <3>4, <3>5 DEF Inv
<1>5. QED
  BY <1>3, <1>4 DEF Inv, TypesOK

LEMMA PollStep ==
  ASSUME Inv, BoolOK, PollSees
  PROVE  Inv'
<1>1. /\ call # "none" /\ pos \in 1..Len(Steps) /\ pos' = pos + 1
      /\ Now.op \in {"until", "while"} /\ (Now.bit \in chip) = (Now.op = "until")
      /\ UNCHANGED <<call, seq, retried, result, last, calls, flags, chip, mac, lateOff>>
  BY DEF PollSees, Running, Inv, TypesOK
<1>2. TypesOK'
  BY <1>1 DEF Inv, TypesOK, Steps
<1>3. CASE seq = "on"
  <2>1. pos \in 1..40 /\ pos \notin {9, 10, 12, 40} /\ (pos = 13 => "ONMAC" \notin chip)
    BY <1>1, <1>3, OnPoll, Lengths
  <2>2. QED
    BY <1>1, <1>2, <1>3, <2>1 DEF Inv, CallInv, RequestInv, MacInv, PowerAsTold,
       PoweredMeansUp, OffMeansDown, FieldInv, FieldsAsMasked
<1>4. CASE seq = "off"
  <2>1. pos \in 1..21 /\ pos <= 17 /\ (pos = 17 => "OFFMAC" \notin chip) /\ pos # 16
    BY <1>1, <1>4, OffPoll, Lengths
  <2>2. QED
    BY <1>1, <1>2, <1>4, <2>1 DEF Inv, CallInv, RequestInv, MacInv, PowerAsTold,
       PoweredMeansUp, OffMeansDown, FieldInv, FieldsAsMasked
<1>5. QED
  BY <1>3, <1>4 DEF Inv, TypesOK

(* A sequence given up, at a place after which it asks for nothing: what   *)
(* is pending then the invariant allows for.                               *)
LEMMA TimeoutStep ==
  ASSUME Inv, BoolOK, PollTimesOut
  PROVE  Inv'
<1>1. /\ call # "none" /\ seq \in {"on", "off"} /\ pos \in 1..Len(Steps)
      /\ Failed /\ UNCHANGED <<flags, mac>>
  BY DEF PollTimesOut, Running, Inv, TypesOK
<1>2. ~lateOff' => ~lateOff /\ Now.bit # "OFFMAC"
  BY DEF PollTimesOut
<1>3. /\ \A b \in Marked : Same(b)
      /\ seq = "off" => pos <= 17 /\ (pos = 17 <=> Now.bit = "OFFMAC")
  BY <1>1, Abandoned DEF PollTimesOut
<1>4. Same("ONMAC") /\ Same("OFFMAC") /\ Same("C1_L1") /\ Same("C3_L1") /\ Same("EESK_FUNC_SEL")
  BY <1>3 DEF Marked
<1>5. ~lateOff' /\ seq = "off" => ~lateOff /\ pos <= 16
  BY <1>1, <1>2, <1>3, Lengths
<1>6. ~lateOff' => ~lateOff /\ "OFFMAC" \notin chip'
  BY <1>1, <1>2, <1>4, <1>5 DEF Inv, RequestInv, Same
<1>7. \/ call = "pwr_on" /\ seq' = "off" /\ pos' = 1 /\ UNCHANGED <<call, result, last, calls>>
      \/ call = "pwr_on" /\ seq' = "on" /\ pos' = 1 /\ UNCHANGED <<call, result, last, calls>>
      \/ call' = "none" /\ result' = "fail" /\ UNCHANGED <<seq, pos, last, calls>>
  BY <1>1, Zenon DEF Failed, Begin, Return
<1>8. TypesOK'
  BY <1>1, <1>7, NextLengths DEF Inv, TypesOK, Steps
<1>9. QED
  <2>1. CallInv'
    BY <1>1, <1>4, <1>5, <1>6, <1>7 DEF Inv, TypesOK, CallInv, Same
  <2>2. RequestInv'
    BY <1>1, <1>4, <1>5, <1>6, <1>7 DEF Inv, TypesOK, CallInv, RequestInv, Same
  <2>3. MacInv'
    BY <1>1, <1>4, <1>5, <1>6, <1>7 DEF Inv, TypesOK, CallInv, RequestInv, MacInv, Same
  <2>4. PowerAsTold'
    BY <1>1, <1>4, <1>5, <1>6, <1>7
    DEF Inv, TypesOK, CallInv, RequestInv, MacInv, PowerAsTold, PoweredMeansUp,
        OffMeansDown, Same
  <2>5. FieldInv'
    BY <1>1, <1>4, <1>5, <1>6, <1>7 DEF Inv, TypesOK, CallInv, FieldInv, FieldsAsMasked, Same
  <2>6. QED
    BY <1>8, <2>1, <2>2, <2>3, <2>4, <2>5 DEF Inv

LEMMA EndStep ==
  ASSUME Inv, BoolOK, Completed
  PROVE  Inv'
<1>1. /\ call \in {"pwr_on", "pwr_off"} /\ seq \in {"on", "off"} /\ pos > Len(Steps)
      /\ UNCHANGED <<chip, mac, lateOff>>
  BY DEF Completed, Inv, TypesOK
<1>2. /\ seq = "on" => pos > 40 /\ flags' = flags \cup PowerFlags
      /\ seq = "off" => pos > 17 /\ flags' = flags \ (PowerFlags \cup {"FW_RDY"})
  <2>1. flags' = IF seq = "on" THEN flags \cup PowerFlags
                               ELSE flags \ (PowerFlags \cup {"FW_RDY"})
    BY Zenon DEF Completed
  <2>2. (seq = "on" => pos > 40) /\ (seq = "off" => pos > 17)
    <3>1. pos > Len(Steps) /\ pos \in Nat
      BY <1>1, Lengths DEF Inv, TypesOK
    <3>2. CASE seq = "on"
      BY <3>1, <3>2, Lengths
    <3>3. CASE seq = "off"
      <4>1. Len(Steps) = 21
        BY <3>3, Lengths, Zenon
      <4>2. pos > 17
        BY <3>1, <4>1
      <4>3. QED
        BY <3>3, <4>2
    <3>4. QED
      BY <1>1, <3>2, <3>3
  <2>3. QED
    BY <2>1, <2>2, Zenon
<1>3. \/ call = "pwr_on" /\ seq = "off" /\ seq' = "on" /\ pos' = 1
         /\ UNCHANGED <<call, result, last, calls>>
      \/ call = "pwr_on" /\ seq = "on" /\ call' = "none" /\ result' = "ok"
         /\ UNCHANGED <<seq, pos, last, calls>>
      \/ call = "pwr_off" /\ call' = "none" /\ result' = "ok"
         /\ UNCHANGED <<seq, pos, last, calls>>
  BY <1>1, Zenon DEF Completed, Begin, Return
<1>4. TypesOK'
  <2>1. flags' \subseteq PowerFlags \cup {"FW_RDY"}
    BY <1>1, <1>2, Zenon DEF Inv, TypesOK
  <2>2. pos' \in 1..Len(Steps') + 1
    BY <1>1, <1>3, NextLengths DEF Inv, TypesOK, Steps
  <2>3. QED
    BY <1>1, <1>3, <2>1, <2>2 DEF Inv, TypesOK
<1>5. QED
  <2>1. CallInv'
    BY <1>1, <1>2, <1>3 DEF Inv, TypesOK, CallInv, PowerFlags
  <2>2. RequestInv'
    BY <1>1, <1>2, <1>3 DEF Inv, TypesOK, CallInv, RequestInv, PowerFlags
  <2>3. MacInv'
    BY <1>1, <1>2, <1>3 DEF Inv, TypesOK, CallInv, RequestInv, MacInv, PowerFlags
  <2>4. PowerAsTold'
    BY <1>1, <1>2, <1>3
    DEF Inv, TypesOK, CallInv, RequestInv, MacInv, PowerAsTold, PoweredMeansUp,
        OffMeansDown, PowerFlags
  <2>5. FieldInv'
    BY <1>1, <1>2, <1>3 DEF Inv, TypesOK, CallInv, FieldInv, FieldsAsMasked, PowerFlags
  <2>6. QED
    BY <1>4, <2>1, <2>2, <2>3, <2>4, <2>5 DEF Inv

LEMMA StepInv == IInv /\ [Next]_vars => IInv'
<1> SUFFICES ASSUME IInv, [Next]_vars PROVE IInv'
  OBVIOUS
<1>1. Inv /\ BoolOK
  BY Zenon DEF IInv, Inv
<1>2. BoolOK'
  BY <1>1, BoolStep
<1>3. Inv'
  BY <1>1, StepKinds, CallStep, HardwareStep, StayStep, WriteStep, PollStep, TimeoutStep,
     EndStep, Zenon
<1>4. QED
  BY <1>2, <1>3, Zenon DEF IInv, Inv

LEMMA Inductive == Spec => []IInv
BY InitInv, StepInv, PTL DEF Spec

(* Every variable keeps its type, the place in the sequence included.      *)
THEOREM TypeCorrect == Spec => []TypeOK
<1>1. IInv => TypeOK
  BY TypeParts, Zenon DEF IInv
<1>2. QED
  BY <1>1, Inductive, PTL

(* Flags and results tell the truth about the power of the chip, wherever  *)
(* earlier calls were abandoned and however late a request was served.     *)
THEOREM Told == Spec => []PowerAsTold
<1>1. IInv => PowerAsTold
  BY Zenon DEF IInv
<1>2. QED
  BY <1>1, Inductive, PTL

(* A powered chip has in its fields what a mask without a shift leaves.    *)
THEOREM Masked == Spec => []FieldsAsMasked
<1>1. IInv => FieldsAsMasked
  BY Zenon DEF IInv, FieldInv
<1>2. QED
  BY <1>1, Inductive, PTL

(* No call and no hardware takes back an analog switch.                    *)
THEOREM AnalogKept == Spec => AnalogStaysOn
<1>1. IInv /\ [Next]_vars => [chip \cap Analog \subseteq chip']_vars
  <2> SUFFICES ASSUME IInv, [Next]_vars PROVE chip \cap Analog \subseteq chip'
    OBVIOUS
  <2>1. TypesOK
    BY Zenon DEF IInv
  <2>2. CASE Step
    <3>1. /\ pos \in 1..Len(Steps) /\ seq \in {"on", "off"}
          /\ Now.op \in {"set", "clr", "xtal"} /\ Write(Now)
      BY <2>1, <2>2, Lengths DEF Step, Running, TypesOK
    <3>2. QED
      BY <3>1, Lengths, OnWrite, OffWrite
  <2>3. CASE PollTimesOut
    BY <2>1, <2>3, Lengths, Abandoned DEF PollTimesOut, Running, TypesOK
  <2>4. CASE Serve("ONMAC", "up") \/ Serve("OFFMAC", "down") \/ PowerGood
    BY <2>4 DEF Serve, PowerGood, Analog
  <2>5. CASE UNCHANGED chip
    BY <2>5
  <2>6. QED
    BY <2>2, <2>3, <2>4, <2>5, StepKinds
       DEF PwrOn, PwrOff, Enter, Reload, FwReady, PollSees, Completed, vars
<1>2. QED
  BY <1>1, Inductive, PTL DEF Spec, AnalogStaysOn

-----------------------------------------------------------------------------

(* A power on that is switching off is in its retry.                       *)
RetryInv == call = "pwr_on" /\ seq = "off" => retried

LEMMA RetryStep ==
  ASSUME BoolOK, RetryInv, [Next]_vars
  PROVE  RetryInv'
<1> USE DEF RetryInv, callVars
<1>1. CASE PwrOn \/ PwrOff
  <2>1. call' = "pwr_off" \/ seq' = "on"
    BY <1>1, Zenon DEF PwrOn, PwrOff, Enter
  <2>2. QED
    BY <2>1
<1>2. CASE PollTimesOut
  BY <1>2, Zenon DEF PollTimesOut, Failed, Begin, Return
<1>3. CASE Completed
  <2>1. seq' = "on" \/ call' = "none"
    BY <1>3, Zenon DEF Completed, Begin, Return
  <2>2. QED
    BY <2>1
<1>4. CASE UNCHANGED <<call, seq, retried>>
  BY <1>4, Zenon
<1>5. QED
  BY <1>1, <1>2, <1>3, <1>4, StepKinds, Zenon
  DEF Reload, FwReady, Step, PollSees, Serve, PowerGood, vars

(* What a call has before it, at most: the sequence it is in and, of a     *)
(* power on, the sequences of a retry it has not used.                     *)
Spare == IF retried THEN 0 ELSE 63

StepsAhead ==
    IF call = "none" THEN 0
    ELSE IF seq = "on" THEN 42 - pos + Spare
    ELSE IF call = "pwr_on" THEN 64 - pos
    ELSE 23 - pos

LEMMA SpareFacts ==
  ASSUME BoolOK
  PROVE  /\ Spare \in {0, 63}
         /\ retried => Spare = 0
         /\ ~retried => Spare = 63
         /\ retried' = TRUE => Spare' = 0
         /\ retried' = retried => Spare' = Spare
<1>1. CASE retried = TRUE
  BY <1>1, Zenon DEF Spare
<1>2. CASE retried = FALSE
  BY <1>2, Zenon DEF Spare
<1>3. retried' = TRUE => Spare' = 0
  BY Zenon DEF Spare
<1>4. QED
  BY <1>1, <1>2, <1>3, Zenon DEF BoolOK

LEMMA PosRange ==
  ASSUME TypesOK
  PROVE  pos \in Nat /\ (seq = "on" => pos \in 1..41) /\ (seq = "off" => pos \in 1..22)
<1>1. \A n \in Nat : pos \in 1..Len(Steps) + 1 /\ Len(Steps) = n => pos \in 1..n + 1
  OBVIOUS
<1>2. pos \in 1..Len(Steps) + 1
  BY DEF TypesOK
<1>3. seq = "on" => pos \in 1..40 + 1
  BY <1>1, <1>2, Lengths
<1>4. seq = "off" => pos \in 1..21 + 1
  BY <1>1, <1>2, Lengths
<1>5. pos \in Nat
  BY <1>3, <1>4 DEF TypesOK
<1>6. QED
  BY <1>3, <1>4, <1>5

(* A call leaves its steps behind one by one.                              *)
CallAdvances ==
    [][call # "none" => IF Sequence THEN StepsAhead' < StepsAhead
                                    ELSE UNCHANGED <<call, seq, pos, retried>>]_vars

LEMMA SequenceLowers ==
  ASSUME IInv, RetryInv, Sequence
  PROVE  StepsAhead' < StepsAhead
<1>1. TypesOK /\ BoolOK /\ CallInv
  BY Zenon DEF IInv
<1>2. /\ call \in {"pwr_on", "pwr_off"} /\ seq \in {"on", "off"}
      /\ call = "pwr_off" => seq = "off"
  BY <1>1 DEF TypesOK, CallInv, Sequence, Step, PollSees, PollTimesOut, Completed, Running
<1>3. pos \in Nat /\ (seq = "on" => pos \in 1..41) /\ (seq = "off" => pos \in 1..22)
  BY <1>1, PosRange
<1>4. CASE Step \/ PollSees
  <2>1. pos' = pos + 1 /\ UNCHANGED <<call, seq, retried>>
    BY <1>4, Zenon DEF Step, PollSees
  <2>2. Spare' = Spare /\ Spare \in {0, 63}
    BY <1>1, <2>1, SpareFacts, Zenon
  <2>3. QED
    BY <1>2, <1>3, <2>1, <2>2 DEF StepsAhead
<1>5. ASSUME call' = "none" PROVE StepsAhead' < StepsAhead
  <2>1. Spare \in {0, 63}
    BY <1>1, SpareFacts, Zenon
  <2>2. StepsAhead' = 0
    BY <1>5 DEF StepsAhead
  <2>3. StepsAhead > 0
    BY <1>2, <1>3, <2>1 DEF StepsAhead
  <2>4. QED
    BY <2>2, <2>3
<1>6. ASSUME call = "pwr_on", call' = call, seq = "on", Spare = 63, seq' = "off", pos' = 1
      PROVE  StepsAhead' < StepsAhead
  BY <1>3, <1>6 DEF StepsAhead
<1>7. ASSUME call = "pwr_on", call' = call, seq = "off", seq' = "on", pos' = 1, Spare' = 0
      PROVE  StepsAhead' < StepsAhead
  BY <1>3, <1>7 DEF StepsAhead
<1>8. CASE PollTimesOut
  <2>1. \/ call = "pwr_on" /\ seq = "on" /\ ~retried /\ seq' = "off" /\ pos' = 1 /\ call' = call
        \/ call = "pwr_on" /\ seq = "off" /\ seq' = "on" /\ pos' = 1 /\ call' = call
           /\ retried' = retried
        \/ call' = "none"
    BY <1>8, Zenon DEF PollTimesOut, Failed, Begin, Return
  <2>2. QED
    BY <1>1, <1>5, <1>6, <1>7, <2>1, SpareFacts, Zenon DEF RetryInv
<1>9. CASE Completed
  <2>1. \/ call = "pwr_on" /\ seq = "off" /\ seq' = "on" /\ pos' = 1 /\ call' = call
           /\ retried' = retried
        \/ call' = "none"
    BY <1>9, Zenon DEF Completed, Begin, Return
  <2>2. QED
    BY <1>1, <1>5, <1>7, <2>1, SpareFacts, Zenon DEF RetryInv
<1>10. QED
  BY <1>4, <1>8, <1>9 DEF Sequence

(* No call makes more than 104 steps, its retry included: every step of    *)
(* the sequences takes one away and nothing else gives one back, so the    *)
(* retry does not feed itself, however often its polls time out            *)
(* (mac.c:124-136, rtw8852b.c:95-282).                                    *)
THEOREM CallIsBounded == Spec => [](StepsAhead \in 0..104) /\ CallAdvances
<1>1. IInv => StepsAhead \in 0..104
  <2> SUFFICES ASSUME IInv PROVE StepsAhead \in 0..104
    OBVIOUS
  <2>1. TypesOK /\ BoolOK
    BY Zenon DEF IInv
  <2>2. pos \in Nat /\ (seq = "on" => pos \in 1..41) /\ (seq = "off" => pos \in 1..22)
    BY <2>1, PosRange
  <2>3. Spare \in {0, 63} /\ seq \in {"on", "off"}
    BY <2>1, SpareFacts, Zenon DEF TypesOK
  <2>4. QED
    BY <2>2, <2>3 DEF StepsAhead
<1>2. IInv /\ RetryInv /\ [Next]_vars =>
        [call # "none" => IF Sequence THEN StepsAhead' < StepsAhead
                                      ELSE UNCHANGED <<call, seq, pos, retried>>]_vars
  <2> SUFFICES ASSUME IInv, RetryInv, Next, call # "none", ~Sequence
               PROVE  UNCHANGED <<call, seq, pos, retried>>
    BY SequenceLowers, Zenon
  <2>1. QED
    BY Zenon DEF Next, PwrOn, PwrOff, Enter, Reload, FwReady, Hardware, Serve, PowerGood,
       callVars
<1>3. Init => RetryInv
  BY DEF Init, RetryInv
<1>4. IInv /\ RetryInv /\ [Next]_vars => RetryInv'
  BY RetryStep, Zenon DEF IInv
<1>5. QED
  BY <1>1, <1>2, <1>3, <1>4, Inductive, PTL DEF Spec, CallAdvances
=============================================================================
