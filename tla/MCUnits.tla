------------------------------ MODULE MCUnits ------------------------------
(***************************************************************************)
(* The parts that share no state with each other, side by side: a          *)
(* behaviour is a behaviour of one of them.  The functions without state   *)
(* are evaluated for one sample of their arguments each.                   *)
(***************************************************************************)
EXTENDS FrameLists, Ticks

CONSTANTS OffTime, OnTime, StepTime, Devices,
          Units   \* the parts of this instance

\* A blink is dark for some time, and shorter than half the range of the counter.
ASSUME BlinkAssumption ==
  OffTime \in Nat /\ OnTime \in Nat /\ 0 < OffTime /\ OffTime <= OnTime /\ OnTime < Half

VARIABLES
  unit, sample,
  now, nextUpdate, mode, step, tNext, blink, offUntil, onUntil, lit, pc, loaded, since, fresh,
  known, phase, magic, detach, asked,
  fd, stat, dtog, swBuf, ctr, begun, memory, isr, snapshot, transfer, bufs, sending, due, starved

Led    == INSTANCE Leds
Boot   == INSTANCE Dfu
Out    == INSTANCE OutEndpoint
Timing == INSTANCE BitTiming
Report == INSTANCE ErrorFrames

ledVars == <<now, nextUpdate, mode, step, tNext, blink, offUntil, onUntil, lit, pc, loaded, since, fresh>>
dfuVars == <<known, phase, magic, detach, asked>>
outVars == <<fd, stat, dtog, swBuf, ctr, begun, memory, isr, snapshot, transfer, bufs, sending, due, starved>>
unitsVars == <<unit, sample, vars, ledVars, dfuVars, outVars>>

Samples(u) ==
  CASE u = "timing" -> UNION {[ctrl : {c}, bt : Timing!Timings(c)] : c \in Timing!Controllers}
    [] u = "tdc"    -> Timing!Tdcs
    [] u = "report" -> Report!Snapshots
    [] OTHER        -> {<<>>}

UnitsInit ==
  /\ unit \in Units /\ sample \in Samples(unit)
  /\ Init /\ Led!Init /\ Boot!Init /\ Out!Init
  /\ unit # "lists" => chan = [f \in Frames |-> CHOOSE c \in Channels : TRUE]
  /\ unit # "dfu" => known = CHOOSE k \in Devices : TRUE
  /\ unit # "endpoint" => ~fd

\* An action of one part; the others stand still.
ListStep(A) == unit = "lists" /\ A /\ UNCHANGED <<unit, sample, ledVars, dfuVars, outVars>>
LedStep(A)  == unit = "leds"  /\ A /\ UNCHANGED <<unit, sample, vars, dfuVars, outVars>>
BootStep(A) == unit = "dfu"   /\ A /\ UNCHANGED <<unit, sample, vars, ledVars, outVars>>
OutStep(A)  == unit = "endpoint" /\ A /\ UNCHANGED <<unit, sample, vars, ledVars, dfuVars>>

UnitsNext ==
  \/ ListStep(Next) \/ LedStep(Led!Next) \/ BootStep(Boot!Next) \/ OutStep(Out!Next)
  \/ unit \in {"timing", "tdc", "report"} /\ UNCHANGED unitsVars

\* The purge and the start-up code run to their ends.
UnitsSpec ==
  /\ UnitsInit /\ [][UnitsNext]_unitsVars
  /\ WF_unitsVars(ListStep(Purge)) /\ WF_unitsVars(BootStep(Boot!Device))

-----------------------------------------------------------------------------
(* Properties. *)

\* What passes can_check_bittiming_ok is what the controller runs with, at every
\* limit and field width of bxCAN and M_CAN, except what m_can.c cannot encode.
TimingApplied ==
  unit = "timing" /\ Timing!CheckBittimingOk(sample.ctrl, sample.bt)
                  /\ ~Timing!Unencodable(sample.ctrl, sample.bt)
    => Timing!Applied(sample.ctrl, sample.bt)

\* Every timing within the limits the device advertises ("tseg1_max = 256",
\* m_can.c:59) is applied.
AdvertisedApplied ==
  unit = "timing" /\ Timing!CheckBittimingOk(sample.ctrl, sample.bt) /\ sample.bt.sjw # 0
    => Timing!Applied(sample.ctrl, sample.bt)

\* A compensation that passes can_check_tdc_ok, or is calculated for a data bit
\* timing that passes its check, is what the controller runs with; a calculated
\* one is the sample point and needs no clipping.
TdcApplied ==
  /\ unit = "tdc" /\ Timing!CheckTdcOk(sample) => Timing!TdcFound(sample)
  /\ unit = "timing" /\ sample.ctrl = Timing!MCanData /\ Timing!CheckBittimingOk(sample.ctrl, sample.bt) =>
       \A tdcf \in {0, Timing!TdcfMax} :
         LET tdc == Timing!CalcTdco(sample.bt, tdcf)
         IN  /\ Timing!TdcFound(tdc)
             /\ Timing!TdcEnabled(tdc) => tdc.tdco = Timing!SamplePoint(sample.bt)

\* The error frames of CAN_HandleError agree with the state GET_STATE reports.
FramesAgree == unit = "report" => Report!Agrees(sample)

\* IDENTIFY and led_update (module Leds).
StepInSequence == Led!StepInSequence
DarkInBlink    == Led!DarkInBlink

\* DETACH and the boot loader (module Dfu).
BootLoaderAsked == Boot!BootLoaderAsked
DetachBoots     == Boot!DetachBoots

\* The double-buffered endpoint and its flow control (module OutEndpoint).
FramesWhole     == Out!FramesWhole
ReserveSuffices == Out!ReserveSuffices
TakesPackets    == Out!TakesPackets
NoFrameLoss     == Out!NoFrameLoss
=============================================================================
