----------------------------- MODULE BitTiming -----------------------------
(***************************************************************************)
(* Bit timings and the transmitter delay compensation on their way from    *)
(* the host's request to the registers of the controller: the checks, the  *)
(* calculated compensation, and the encodings with their widths.  A        *)
(* register is the set of its bits that are 1.                             *)
(***************************************************************************)
EXTENDS Integers, FiniteSetsExt

\* The values of the bits: a table, since no prover knows the powers of 2.
BitValue(b) == <<1, 2, 4, 8, 16, 32, 64, 128, 256, 512, 1024, 2048, 4096>>[b + 1]

\* The fields of struct gs_device_bittiming are unsigned; here they have 12 bits,
\* which is more than the hardware takes.
Width == 12
UInt == BitValue(Width)

\* The bits of x, of -1 (0 - 1) all 32.
Bits(x) == IF x < 0 THEN 0..31 ELSE {b \in 0..(Width - 1) : (x \div BitValue(b)) % 2 = 1}

\* x << field.pos, and FIELD_PREP, which masks it.
Shifted(x, field) == {b + field.pos : b \in Bits(x)} \cap (0..31)
Masked(x, field)  == Shifted(x, field) \cap (field.pos..(field.pos + field.width - 1))

\* What the hardware finds in a field.
Found(reg, field) == {b \in 0..(field.width - 1) : field.pos + b \in reg}

-----------------------------------------------------------------------------
(* The controllers: CAN_btconst, CAN_btconst_ext and the timing registers.   *)

Field(pos, width) == [pos |-> pos, width |-> width]

BxCan == [tseg1Max |-> 16, tseg2Max |-> 8, sjwMax |-> 4, brpMax |-> 1024, masked |-> TRUE,
          field |-> [sjw |-> Field(24, 2), tseg2 |-> Field(20, 3), tseg1 |-> Field(16, 4), brp |-> Field(0, 10)]]

MCanNominal == [tseg1Max |-> 256, tseg2Max |-> 128, sjwMax |-> 128, brpMax |-> 512, masked |-> FALSE,
                field |-> [sjw |-> Field(25, 7), brp |-> Field(16, 9), tseg1 |-> Field(8, 8), tseg2 |-> Field(0, 7)]]

MCanData == [tseg1Max |-> 32, tseg2Max |-> 16, sjwMax |-> 16, brpMax |-> 32, masked |-> FALSE,
             field |-> [brp |-> Field(16, 5), tseg1 |-> Field(8, 5), tseg2 |-> Field(4, 4), sjw |-> Field(0, 4)]]

Controllers == {BxCan, MCanNominal, MCanData}
Parts == {"sjw", "tseg1", "tseg2", "brp"}

\* Timings around every limit of a controller, and sums that wrap around.
Timings(c) ==
  LET Around(max) == {0, 1, max, max + 1}
  IN  [prop_seg : {0, 1, UInt - 1}, phase_seg1 : Around(c.tseg1Max) \cup {2, c.tseg1Max - 1},
       phase_seg2 : Around(c.tseg2Max), sjw : Around(c.sjwMax), brp : Around(c.brpMax) \cup {2, 3}]

\* uint32_t tseg1.
Tseg1(bt) == (bt.prop_seg + bt.phase_seg1) % UInt

\* Mutant: the sum is not checked.
CheckWithoutSum(c, bt) ==
  /\ bt.phase_seg1 \in 1..c.tseg1Max
  /\ bt.phase_seg2 \in 1..c.tseg2Max
  /\ bt.sjw <= c.sjwMax
  /\ bt.brp \in 1..c.brpMax

\* can_check_bittiming_ok.
CheckBittimingOk(c, bt) ==
  /\ Tseg1(bt) \in 1..c.tseg1Max
  /\ bt.phase_seg2 \in 1..c.tseg2Max
  /\ bt.sjw <= c.sjwMax
  /\ bt.brp \in 1..c.brpMax

\* can_drv_enable of bxCAN; m_can_set_bittiming, with a uint8_t tseg1, and
\* HAL_FDCAN_Init, which does not mask.
TimingRegister(c, bt) ==
  LET value == [sjw |-> bt.sjw, tseg2 |-> bt.phase_seg2, brp |-> bt.brp,
                tseg1 |-> IF c.masked THEN Tseg1(bt) ELSE Tseg1(bt) % BitValue(8)]
  IN  UNION {IF c.masked THEN Masked(value[p] - 1, c.field[p]) ELSE Shifted(value[p] - 1, c.field[p]) : p \in Parts}

-----------------------------------------------------------------------------
(* Transmitter delay compensation: M_CAN.                                    *)

TdcoMax == 127
TdcfMax == 127
TdcvMax == 0       \* CAN_tdc_const does not set it

TdcModes == {"off", "auto", "manual"}
Tdcs == [mode : SUBSET TdcModes, tdcv : {0, 1}, tdco : {0, 1, TdcoMax, TdcoMax + 1}, tdcf : {0, TdcfMax, TdcfMax + 1}]

\* Mutant: MANUAL without a value.
CheckTdcOkManual(tdc) ==
  /\ tdc.tdcv <= TdcvMax /\ tdc.tdco <= TdcoMax /\ tdc.tdcf <= TdcfMax
  /\ \E m \in TdcModes : tdc.mode = {m}
  /\ tdc.tdcv # 0 => "auto" \notin tdc.mode
  /\ tdc.mode # {"off"} => tdc.tdco # 0

\* can_check_tdc_ok.
CheckTdcOk(tdc) ==
  /\ tdc.tdcv <= TdcvMax /\ tdc.tdco <= TdcoMax /\ tdc.tdcf <= TdcfMax
  /\ \E m \in TdcModes : tdc.mode = {m}
  /\ IF tdc.tdcv # 0 THEN "auto" \notin tdc.mode ELSE "manual" \notin tdc.mode
  /\ tdc.mode # {"off"} => tdc.tdco # 0

\* can_calc_tdco, for a channel with GS_CAN_FEATURE_FD and without
\* GS_CAN_FEATURE_TDC; tdcf is left from an earlier request, if there was one.
SamplePoint(bt) == ((1 + bt.prop_seg + bt.phase_seg1) % UInt) * bt.brp

CalcTdco(bt, tdcf) ==
  IF bt.brp \in {1, 2}
  THEN [mode |-> {"auto"}, tdcv |-> 0, tdco |-> Min({SamplePoint(bt), TdcoMax}), tdcf |-> tdcf]
  ELSE [mode |-> {"off"}, tdcv |-> 0, tdco |-> 0, tdcf |-> tdcf]

\* can_drv_enable: HAL_FDCAN_ConfigTxDelayCompensation.
TDCO == Field(8, 7)
TDCF == Field(0, 7)
TdcRegister(tdc) == Shifted(tdc.tdco, TDCO) \cup Shifted(tdc.tdcf, TDCF)
TdcEnabled(tdc) == "auto" \in tdc.mode

-----------------------------------------------------------------------------
(* Properties. *)

\* The hardware finds in its register what the host asked for; sjw 0 is the widest.
Applied(c, bt) ==
  LET reg  == TimingRegister(c, bt)
      want == [sjw |-> IF bt.sjw = 0 THEN c.sjwMax ELSE bt.sjw, tseg1 |-> Tseg1(bt),
               tseg2 |-> bt.phase_seg2, brp |-> bt.brp]
  IN  \A p \in Parts : Found(reg, c.field[p]) = Bits(want[p] - 1)

\* Two accepted timings that m_can.c cannot encode: a tseg1 of 256, and a data
\* bit timing with sjw 0.
Unencodable(c, bt) == \/ c = MCanNominal /\ Tseg1(bt) = 256
                      \/ c = MCanData /\ bt.sjw = 0

\* The compensation in the register is the one accepted or calculated, unclipped.
TdcFound(tdc) ==
  /\ tdc.mode \in {{"off"}, {"auto"}}
  /\ TdcEnabled(tdc) =>
       /\ tdc.tdco # 0
       /\ Found(TdcRegister(tdc), TDCO) = Bits(tdc.tdco)
       /\ Found(TdcRegister(tdc), TDCF) = Bits(tdc.tdcf)
=============================================================================
