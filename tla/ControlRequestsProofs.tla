------------------------ MODULE ControlRequestsProofs ------------------------
(***************************************************************************)
(* Control transfers, for every number of channels, every set of requests  *)
(* and every size of the union ep0, and hosts that start running channels. *)
(***************************************************************************)
EXTENDS ControlRequests, TLAPS

\* What a transfer has led to so far: acknowledged means EP0_RxReady was called, and
\* the IN endpoint never offers data in a transfer to the device.
IInv ==
  /\ DataStage
  /\ HandledOnce
  /\ Answered
  /\ done \in Nat
  /\ xfer.kind \in Written => in # "data"
  /\ ep0State = "status_out" => xfer.kind = "none"

\* Transfers begin with a request of the host, whose packets are counted.
LEMMA TransferFacts ==
  \A t \in Transfers :
    /\ t.packets \in Nat
    /\ t.kind # "none"
  <1> USE ConstantsAssumption DEF Transfers
  <1> QED BY DEF Written, Read, NotCompiledIn, Timed

LEMMA ReadNotWritten == Read \cap Written = {} /\ "none" \notin Written
  BY DEF Read, Written, Timed

LEMMA InitInv == Init => IInv
  BY ReadNotWritten DEF Init, IInv, DataStage, HandledOnce, Answered, NoTransfer

\* Every step keeps IInv.
LEMMA StepInv == IInv /\ [Next]_vars => IInv'
<1> SUFFICES ASSUME IInv, [Next]_vars PROVE IInv'
  OBVIOUS
<1> USE DEF IInv, DataStage, HandledOnce, Answered, usbVars, ep0Vars
<1>1. CASE \E t \in Transfers : Refuse(t)
  BY <1>1, TransferFacts DEF Refuse, Begins
<1>2. CASE \E t \in Transfers : PrepareRx(t)
  <2>1. PICK t \in Transfers : PrepareRx(t)
    BY <1>2
  <2>2. t.packets \in Nat \ {0}
    BY <2>1, TransferFacts DEF PrepareRx, Valid
  <2> QED BY <2>1, <2>2 DEF PrepareRx, Begins
<1>3. CASE \E t \in Transfers : SendData(t)
  BY <1>3, ReadNotWritten DEF SendData, Begins
<1>4. CASE ContinueRx
  BY <1>4 DEF ContinueRx, Sends, Received
<1>5. CASE RxReady
  BY <1>5 DEF RxReady, Sends, Received
<1>6. CASE DataIn
  BY <1>6, ReadNotWritten DEF DataIn, NoTransfer
<1>7. CASE StatusOut
  BY <1>7, ReadNotWritten DEF StatusOut
<1>8. CASE SetConfig
  BY <1>8 DEF SetConfig
<1>9. CASE Reset
  BY <1>9, ReadNotWritten DEF Reset, NoTransfer
<1>10. CASE Suspend
  BY <1>10 DEF Suspend
<1>11. CASE Resume
  BY <1>11 DEF Resume
<1>12. CASE UNCHANGED vars
  BY <1>12 DEF vars
<1>13. CASE \E t \in Transfers : PrepareNoData(t)
  <2>1. PICK t \in Transfers : PrepareNoData(t)
    BY <1>13
  <2>2. t.kind = "bus_off_recovery" /\ t.packets = 0
    BY <2>1 DEF PrepareNoData, Valid
  <2> QED BY <2>1, <2>2 DEF PrepareNoData, Begins
<1> QED
  BY <1>1, <1>2, <1>3, <1>4, <1>5, <1>6, <1>7, <1>8, <1>9, <1>10, <1>11, <1>12, <1>13 DEF Next

\* A setting with a data stage is acknowledged only after EP0_RxReady was called for
\* it, once (usbd_core.c:318-326), whatever transfers were given up before.
THEOREM HandledOnceCorrect == Spec => []HandledOnce
<1>1. IInv => HandledOnce
  BY DEF IInv
<1> QED BY InitInv, StepInv, <1>1, PTL DEF Spec

\* Endpoint 0 never leaves the host waiting (usbd_gs_can.c:353-519).
THEOREM AnsweredCorrect == Spec => []Answered
<1>1. IInv => Answered
  BY DEF IInv
<1> QED BY InitInv, StepInv, <1>1, PTL DEF Spec

\* EP0_RxReady acts on the set-up stage and the data of its own transfer
\* (usbd_gs_can.c:492-497, 570-704).
THEOREM OwnDataCorrect == Spec => OwnData
<1> DEFINE Own ==
      done' > done =>
        /\ lastSetup.kind = xfer.kind /\ lastSetup.chan = xfer.chan
        /\ ep0'.kind = xfer.kind /\ at' = xfer.packets
<1>1. IInv /\ [Next]_vars => [Own]_vars
  <2> SUFFICES ASSUME IInv, Next, done' > done PROVE Own
    BY DEF vars
  <2>1. done \in Nat
    BY DEF IInv
  <2>2. ~ \E t \in Transfers : Begins(t)
    BY <2>1 DEF Begins
  <2>3. CASE RxReady
    BY <2>3 DEF RxReady, Sends, Received, IInv, DataStage
  <2>4. CASE ~RxReady
    <3>1. done' = done
      BY <2>2, <2>4 DEF Next, Refuse, PrepareRx, PrepareNoData, SendData, ContinueRx, DataIn, StatusOut,
        SetConfig, Reset, Suspend, Resume
    <3> QED BY <2>1, <3>1
  <2> QED BY <2>3, <2>4
<1> QED BY InitInv, StepInv, <1>1, PTL DEF Spec, OwnData

-----------------------------------------------------------------------------
(* What the requests do to a channel.                                        *)

\* What the last packet of a data stage relies on besides DataStage: it belongs to
\* a transfer that PrepareRx accepted, and the data in ep0 is such a transfer's.
Prepared ==
  ep0State = "data_out" =>
    /\ xfer.kind \in Written /\ xfer.chan \in Nat /\ xfer.packets <= MaxPackets
    /\ xfer.chan \in Chans \/ xfer.kind \in DeviceWide
    /\ at > 0 => ep0.arg \in Payloads(xfer.kind)
    /\ at > 0 /\ ~StartsRunning /\ xfer.kind = "mode" /\ ep0.arg.on =>
         ~channel[xfer.chan].mode.on

\* While a channel is stopped, its delay compensation is the one the host has set.
TdcKept ==
  ~StartsRunning =>
    \A c \in Chans : channel[c].tdcSet /\ ~channel[c].mode.on =>
      hostTdc[c] \in Tdcs /\ channel[c].tdc = hostTdc[c]

\* A channel that the host does not start twice runs with the TDC it has set.
Forced == ~StartsRunning => TdcInForce

ChannelInv == IInv /\ TypeOK /\ Prepared /\ TdcKept /\ Forced /\ TdcoFits

LEMMA ChannelInit == Init => ChannelInv
<1> SUFFICES ASSUME Init PROVE ChannelInv
  OBVIOUS
<1> USE ConstantsAssumption DEF Init
<1>1. IInv
  BY InitInv
<1>2. channel \in [Chans -> Channel] /\ hostTdc \in [Chans -> AnyTdc]
  BY DEF Channel, AnyTdc, Controller, NotSetUp, NoTdc, Modes, Stopped, Unset, ByHost
<1>3. TypeOK
  <2>1. lastSetup \in [kind : Written \cup {"none"}, chan : Nat]
    OBVIOUS
  <2>2. rem \in 0 .. MaxPackets /\ at \in 0 .. MaxPackets
    OBVIOUS
  <2>3. ep0.kind \in Written \cup Read \cup {"none"}
    OBVIOUS
  <2> QED BY <1>2, <2>1, <2>2, <2>3 DEF TypeOK
<1>4. Prepared /\ TdcKept /\ Forced /\ TdcoFits
  BY DEF Prepared, TdcKept, Forced, TdcInForce, TdcoFits, Stopped
<1> QED BY <1>1, <1>3, <1>4 DEF ChannelInv

\* The channel's operations keep its type.
LEMMA DisabledType ==
  ASSUME NEW ch \in Channel
  PROVE  /\ Disabled(ch) \in Channel
         /\ ~Disabled(ch).tdcSet /\ Disabled(ch).mode = Stopped
BY ConstantsAssumption
   DEF Disabled, Channel, AnyTdc, Controller, NotSetUp, NoTdc, Modes, Stopped, Unset, ByHost

LEMMA CalcTdcType ==
  ASSUME NEW ch \in Channel, NEW mode \in Starts
  PROVE  /\ CalcTdc(ch, mode) \in AnyTdc
         /\ mode.tdc => CalcTdc(ch, mode) = ch.tdc
         /\ ~mode.tdc /\ CalcTdc(ch, mode).mode = ModeAuto =>
              mode.fd /\ ch.dbt \in Compensated /\ CalcTdc(ch, mode).tdco = ch.dbt
<1> USE ConstantsAssumption DEF ModeOff, ModeAuto
<1>1. ch.tdc \in AnyTdc
  BY DEF Channel
<1>2. mode.tdc \in BOOLEAN /\ mode.fd \in BOOLEAN
  BY DEF Starts
<1>3. CASE mode.tdc
  BY <1>1, <1>3 DEF CalcTdc
<1>4. CASE ~mode.tdc /\ mode.fd /\ ch.dbt \in Compensated
  BY <1>4 DEF CalcTdc, AnyTdc
<1>5. CASE ~mode.tdc /\ ~(mode.fd /\ ch.dbt \in Compensated)
  <2>1. CalcTdc(ch, mode) = [ch.tdc EXCEPT !.mode = ModeOff]
    BY <1>5 DEF CalcTdc
  <2> QED BY <1>1, <1>5, <2>1 DEF AnyTdc
<1> QED BY <1>2, <1>3, <1>4, <1>5

LEMMA EnabledFacts ==
  ASSUME NEW ch \in Channel, NEW mode \in Starts
  PROVE  /\ Enabled(ch, mode) \in Channel
         /\ Enabled(ch, mode).mode = mode /\ Enabled(ch, mode).tdcSet = ch.tdcSet
         /\ Enabled(ch, mode).ctrl = [dbt |-> ch.dbt, tdc |-> CalcTdc(ch, mode)]
<1>1. CalcTdc(ch, mode) \in AnyTdc
  BY CalcTdcType
<1> QED BY <1>1 DEF Enabled, Configured, Channel, Controller, Modes

-----------------------------------------------------------------------------
(* The data stage.                                                           *)

LEMMA ModeFacts ==
  \A mode \in Modes : mode.on \in BOOLEAN /\ (mode.on => mode \in Starts) /\ (mode.tdc => mode.on)
<1> SUFFICES ASSUME NEW mode \in Modes
             PROVE  mode.on \in BOOLEAN /\ (mode.on => mode \in Starts) /\ (mode.tdc => mode.on)
  OBVIOUS
<1>1. CASE mode \in Starts
  BY <1>1 DEF Starts
<1>2. CASE mode = Stopped
  BY <1>2 DEF Stopped
<1> QED BY <1>1, <1>2 DEF Modes

LEMMA PayloadFacts ==
  /\ Payloads("mode") = Modes
  /\ Payloads("set_tdc") \subseteq AnyTdc
  /\ Tdcs \subseteq AnyTdc
<1>1. Tdcs \subseteq AnyTdc /\ NoTdc \in AnyTdc
  BY ConstantsAssumption DEF Tdcs, NoTdc, AnyTdc, ByHost
<1> QED BY <1>1 DEF Payloads, Timed, Modes

\* What the packet that comes leaves in ep0.
LEMMA ReceivedFacts ==
  ASSUME ChannelInv, Sends, Received
  PROVE  /\ ep0'.kind = xfer.kind /\ ep0'.arg \in Payloads(xfer.kind) /\ readsOff' \in BOOLEAN
         /\ ~StartsRunning /\ xfer.kind = "mode" /\ ep0'.arg.on => ~channel[xfer.chan].mode.on
         /\ at \in Nat /\ rem \in Nat \ {0} /\ at + rem = xfer.packets
         /\ lastSetup.kind = xfer.kind /\ lastSetup.chan = xfer.chan
<1> USE DEF ChannelInv, IInv, DataStage, Prepared
<1>1. ep0State = "data_out"
  BY DEF Sends
<1>2. readsOff \in BOOLEAN
  BY DEF TypeOK
<1>3. CASE at = 0
  <2>1. PICK arg \in Payloads(xfer.kind) :
          /\ (~StartsRunning /\ xfer.kind = "mode" /\ arg.on) => ~channel[xfer.chan].mode.on
          /\ ep0' = [kind |-> xfer.kind, arg |-> arg]
          /\ readsOff' = ReadsOff(xfer.kind, arg, xfer.packets)
    BY <1>3 DEF Received
  <2>2. readsOff' \in BOOLEAN
    BY <1>2, <2>1 DEF ReadsOff
  <2> QED BY <1>1, <2>1, <2>2
<1>4. CASE at # 0
  BY <1>1, <1>2, <1>4 DEF Received
<1> QED BY <1>3, <1>4

\* What a request that passes its check does.
LEMMA AfterFacts ==
  ASSUME ChannelInv, NEW c \in Chans, NEW kind \in Written, NEW arg \in Payloads(kind),
         NEW busOff \in BOOLEAN, Accepts(c, kind, arg, busOff),
         ~StartsRunning /\ kind = "mode" /\ arg.on => ~channel[c].mode.on,
         NEW ch, ch = After(channel[c], kind, arg),
         NEW tdc, tdc = TdcSetBy(c, kind, arg)
  PROVE  /\ ch \in Channel /\ tdc \in AnyTdc
         /\ ~StartsRunning /\ ch.tdcSet /\ ~ch.mode.on => tdc \in Tdcs /\ ch.tdc = tdc
         /\ ~StartsRunning /\ ch.mode.tdc => tdc \in Tdcs /\ ch.ctrl.tdc = tdc
         /\ ch.mode.on /\ ~ch.mode.tdc /\ ch.ctrl.tdc.mode = ModeAuto =>
              ch.mode.fd /\ ch.ctrl.dbt \in Compensated /\ ch.ctrl.tdc.tdco = ch.ctrl.dbt
<1> DEFINE old == channel[c]
<1>1. old \in Channel /\ hostTdc[c] \in AnyTdc
  BY DEF ChannelInv, TypeOK
<1>2. ~StartsRunning /\ old.tdcSet /\ ~old.mode.on => hostTdc[c] \in Tdcs /\ old.tdc = hostTdc[c]
  BY DEF ChannelInv, TdcKept
<1>3. ~StartsRunning /\ old.mode.tdc => hostTdc[c] \in Tdcs /\ old.ctrl.tdc = hostTdc[c]
  BY DEF ChannelInv, Forced, TdcInForce
<1>4. old.mode.on /\ ~old.mode.tdc /\ old.ctrl.tdc.mode = ModeAuto =>
        old.mode.fd /\ old.ctrl.dbt \in Compensated /\ old.ctrl.tdc.tdco = old.ctrl.dbt
  BY DEF ChannelInv, TdcoFits
<1>5. CASE kind = "data_bittiming"
  <2>1. arg \in Timings /\ ch = [old EXCEPT !.dbt = arg] /\ tdc = hostTdc[c]
    BY <1>5 DEF Accepts, After, TdcSetBy, Timed
  <2>2. /\ ch \in Channel /\ ch.tdcSet = old.tdcSet /\ ch.mode = old.mode
        /\ ch.tdc = old.tdc /\ ch.ctrl = old.ctrl
    BY <1>1, <2>1 DEF Channel
  <2> QED BY <1>1, <1>2, <1>3, <1>4, <2>1, <2>2
<1>6. CASE kind = "set_tdc"
  <2>1. ~old.mode.on /\ arg \in Tdcs /\ ch = [old EXCEPT !.tdc = arg, !.tdcSet = TRUE] /\ tdc = arg
    BY <1>6 DEF Accepts, After, TdcSetBy, Timed
  <2>2. arg \in AnyTdc
    BY <2>1, PayloadFacts
  <2>3. ch \in Channel /\ ch.tdcSet /\ ch.mode = old.mode /\ ch.tdc = arg /\ ch.ctrl = old.ctrl
    BY <1>1, <2>1, <2>2 DEF Channel
  <2>4. ~old.mode.tdc
    BY <1>1, <2>1, ModeFacts DEF Channel
  <2> QED BY <2>1, <2>2, <2>3, <2>4
<1>7. CASE kind = "mode" /\ arg.on
  <2>1. arg \in Starts
    BY <1>7, PayloadFacts, ModeFacts
  <2>2. ch = Enabled(old, arg) /\ tdc = hostTdc[c] /\ (arg.tdc => old.tdcSet)
    BY <1>7 DEF Accepts, After, TdcSetBy, Timed
  <2>3. /\ ch \in Channel /\ ch.mode = arg /\ ch.tdcSet = old.tdcSet
        /\ ch.ctrl = [dbt |-> old.dbt, tdc |-> CalcTdc(old, arg)]
    BY <1>1, <2>1, <2>2, EnabledFacts
  <2>4. arg.on /\ (arg.tdc => CalcTdc(old, arg) = old.tdc)
    BY <1>1, <1>7, <2>1, CalcTdcType
  <2>5. ~arg.tdc /\ CalcTdc(old, arg).mode = ModeAuto =>
          arg.fd /\ old.dbt \in Compensated /\ CalcTdc(old, arg).tdco = old.dbt
    BY <1>1, <2>1, CalcTdcType
  <2> QED BY <1>1, <1>2, <1>7, <2>2, <2>3, <2>4, <2>5
<1>8. CASE kind = "mode" /\ ~arg.on
  <2>1. ch = Disabled(old) /\ tdc = NoTdc
    BY <1>8 DEF After, TdcSetBy, Timed
  <2>2. ch \in Channel /\ ~ch.tdcSet /\ ch.mode = Stopped
    BY <1>1, <2>1, DisabledType
  <2> QED BY <2>1, <2>2, ConstantsAssumption DEF Stopped, NoTdc, AnyTdc, ByHost
<1>9. CASE kind \notin {"data_bittiming", "set_tdc", "mode"}
  <2>1. ch = old /\ tdc = hostTdc[c]
    BY <1>9 DEF After, TdcSetBy
  <2> QED BY <1>1, <1>2, <1>3, <1>4, <2>1
<1> QED BY <1>5, <1>6, <1>7, <1>8, <1>9

-----------------------------------------------------------------------------
(* Every step keeps ChannelInv.                                              *)

LEMMA BeginStep ==
  ASSUME ChannelInv, NEW t \in Transfers, Refuse(t) \/ PrepareRx(t) \/ PrepareNoData(t) \/ SendData(t)
  PROVE  TypeOK' /\ Prepared'
<1> USE ConstantsAssumption DEF ChannelInv, Begins, usbVars
<1>1. TypeOK
  OBVIOUS
<1>2. t.kind \in Written \cup Read \cup NotCompiledIn /\ t.chan \in Nat
  BY DEF Transfers, Chans
<1>3. CASE Refuse(t)
  <2>1. TypeOK'
    BY <1>1, <1>3 DEF Refuse, TypeOK
  <2> QED BY <2>1, <1>3 DEF Refuse, Prepared
<1>4. CASE PrepareRx(t)
  <2>1. /\ t.kind \in Written /\ t.packets \in Nat /\ 0 < t.packets /\ t.packets <= MaxPackets
        /\ t.chan \in Chans \/ t.kind \in DeviceWide
    BY <1>4, TransferFacts DEF PrepareRx, Valid
  <2>2. lastSetup' = [kind |-> t.kind, chan |-> t.chan] /\ rem' = t.packets /\ at' = 0
    BY <1>4 DEF PrepareRx
  <2>3. TypeOK'
    <3>1. lastSetup' \in [kind : Written \cup {"none"}, chan : Nat]
      BY <1>2, <2>1, <2>2
    <3>2. rem' \in 0 .. MaxPackets /\ at' \in 0 .. MaxPackets
      BY <2>1, <2>2
    <3> QED BY <1>1, <1>4, <3>1, <3>2 DEF PrepareRx, TypeOK
  <2> QED BY <1>2, <1>4, <2>1, <2>2, <2>3 DEF PrepareRx, Prepared
<1>5. CASE SendData(t)
  <2>1. ep0'.kind \in Written \cup Read \cup {"none"}
    BY <1>1, <1>5 DEF SendData, TypeOK
  <2>2. readsOff' \in BOOLEAN
    <3>1. readsOff \in BOOLEAN
      BY <1>1 DEF TypeOK
    <3>2. CASE t.kind = "get_tdc"
      <4>1. PICK tdc : readsOff' = (tdc.mode = ModeOff)
        BY <1>5, <3>2 DEF SendData
      <4> QED BY <4>1
    <3>3. CASE t.kind # "get_tdc"
      BY <1>5, <3>1, <3>3 DEF SendData
    <3> QED BY <3>2, <3>3
  <2>3. TypeOK'
    BY <1>1, <1>5, <2>1, <2>2 DEF SendData, TypeOK
  <2> QED BY <1>5, <2>3 DEF SendData, Prepared
<1>6. CASE PrepareNoData(t)
  <2>1. t.kind = "bus_off_recovery"
    BY <1>6 DEF PrepareNoData, Valid
  <2>2. lastSetup' \in [kind : Written \cup {"none"}, chan : Nat]
    BY <1>2, <1>6, <2>1 DEF PrepareNoData, Written
  <2>3. rem' \in 0 .. MaxPackets /\ at' \in 0 .. MaxPackets
    BY <1>6 DEF PrepareNoData
  <2>4. TypeOK'
    BY <1>1, <1>6, <2>2, <2>3 DEF PrepareNoData, TypeOK
  <2> QED BY <1>6, <2>4 DEF PrepareNoData, Prepared
<1> QED BY <1>3, <1>4, <1>5, <1>6

LEMMA ContinueStep ==
  ASSUME ChannelInv, ContinueRx
  PROVE  TypeOK' /\ Prepared'
<1> USE ConstantsAssumption DEF usbVars
<1>1. TypeOK /\ Prepared
  BY DEF ChannelInv
<1>2. /\ ep0'.kind = xfer.kind /\ ep0'.arg \in Payloads(xfer.kind) /\ readsOff' \in BOOLEAN
      /\ ~StartsRunning /\ xfer.kind = "mode" /\ ep0'.arg.on => ~channel[xfer.chan].mode.on
      /\ at \in Nat /\ rem \in Nat \ {0} /\ at + rem = xfer.packets
  BY ReceivedFacts DEF ContinueRx
<1>3. /\ ep0State = "data_out" /\ rem > 1 /\ rem' = rem - 1 /\ at' = at + 1
      /\ UNCHANGED <<usbVars, channel, lastSetup, ep0State, in, xfer, done, hostTdc>>
  BY DEF ContinueRx, Sends
<1>4. xfer.kind \in Written /\ xfer.packets <= MaxPackets
  BY <1>1, <1>3 DEF Prepared
<1>5. rem' \in 0 .. MaxPackets /\ at' \in 0 .. MaxPackets
  BY <1>2, <1>3, <1>4
<1>6. TypeOK'
  BY <1>1, <1>2, <1>3, <1>4, <1>5 DEF TypeOK
<1> QED BY <1>1, <1>2, <1>3, <1>6 DEF Prepared

LEMMA RxReadyStep ==
  ASSUME ChannelInv, RxReady
  PROVE  TypeOK' /\ Prepared' /\ TdcKept' /\ Forced' /\ TdcoFits'
<1> USE ConstantsAssumption DEF usbVars
<1>1. TypeOK /\ Prepared /\ TdcKept /\ Forced /\ TdcoFits
  BY DEF ChannelInv
<1>2. /\ ep0'.kind = xfer.kind /\ ep0'.arg \in Payloads(xfer.kind) /\ readsOff' \in BOOLEAN
      /\ ~StartsRunning /\ xfer.kind = "mode" /\ ep0'.arg.on => ~channel[xfer.chan].mode.on
      /\ at \in Nat /\ rem \in Nat \ {0} /\ at + rem = xfer.packets
      /\ lastSetup.kind = xfer.kind /\ lastSetup.chan = xfer.chan
  BY ReceivedFacts DEF RxReady
<1>3. /\ ep0State = "data_out" /\ at' = at + 1 /\ ep0State' = "status_in" /\ in' = "status"
      /\ rem = 1 /\ rem' = rem /\ done' = done + 1 /\ xfer' = xfer
      /\ configured' = configured /\ suspended' = suspended
  BY DEF RxReady, Sends
<1>4. done = 0 /\ xfer.kind \in Written /\ xfer.packets <= MaxPackets
  BY <1>1, <1>3 DEF Prepared, ChannelInv, IInv, DataStage
<1>5. lastSetup' = [lastSetup EXCEPT !.kind = "none"] \/ lastSetup' = lastSetup
  BY DEF RxReady
<1> DEFINE ChannelsKept == /\ channel' \in [Chans -> Channel] /\ hostTdc' \in [Chans -> AnyTdc]
                           /\ TdcKept' /\ Forced' /\ TdcoFits'
<1>6. ASSUME UNCHANGED <<channel, hostTdc>> PROVE ChannelsKept
  <2>1. channel' \in [Chans -> Channel] /\ hostTdc' \in [Chans -> AnyTdc]
    BY <1>1, <1>6 DEF TypeOK
  <2>2. TdcKept' /\ Forced' /\ TdcoFits'
    BY <1>1, <1>6 DEF TdcKept, Forced, TdcInForce, TdcoFits
  <2> QED BY <2>1, <2>2
<1>7. ASSUME ~UNCHANGED <<channel, hostTdc>> PROVE ChannelsKept
  <2> DEFINE c == xfer.chan
             kind == xfer.kind
             arg == ep0'.arg
  <2>1. PICK busOff \in BOOLEAN :
          /\ c \in Chans /\ Accepts(c, kind, arg, busOff)
          /\ channel' = [channel EXCEPT ![c] = After(@, kind, arg)]
          /\ hostTdc' = [hostTdc EXCEPT ![c] = TdcSetBy(c, kind, arg)]
    BY <1>2, <1>7 DEF RxReady
  <2> HIDE DEF c, kind, arg
  <2>2. channel \in [Chans -> Channel] /\ hostTdc \in [Chans -> AnyTdc]
    BY <1>1 DEF TypeOK
  <2>3. PICK ch, tdc : ch = After(channel[c], kind, arg) /\ tdc = TdcSetBy(c, kind, arg)
    OBVIOUS
  <2>4. channel' = [channel EXCEPT ![c] = ch] /\ hostTdc' = [hostTdc EXCEPT ![c] = tdc]
    BY <2>1, <2>2, <2>3
  <2>5. kind \in Written /\ arg \in Payloads(kind)
        /\ (~StartsRunning /\ kind = "mode" /\ arg.on => ~channel[c].mode.on)
    BY <1>2, <1>4 DEF c, kind, arg
  <2>6. /\ ch \in Channel /\ tdc \in AnyTdc
        /\ ~StartsRunning /\ ch.tdcSet /\ ~ch.mode.on => tdc \in Tdcs /\ ch.tdc = tdc
        /\ ~StartsRunning /\ ch.mode.tdc => tdc \in Tdcs /\ ch.ctrl.tdc = tdc
        /\ ch.mode.on /\ ~ch.mode.tdc /\ ch.ctrl.tdc.mode = ModeAuto =>
             ch.mode.fd /\ ch.ctrl.dbt \in Compensated /\ ch.ctrl.tdc.tdco = ch.ctrl.dbt
    BY <2>1, <2>3, <2>5, AfterFacts
  <2>7. channel' \in [Chans -> Channel] /\ hostTdc' \in [Chans -> AnyTdc]
    BY <2>2, <2>4, <2>6
  <2>8. \A d \in Chans : /\ channel'[d] = IF d = c THEN ch ELSE channel[d]
                         /\ hostTdc'[d] = IF d = c THEN tdc ELSE hostTdc[d]
    BY <2>1, <2>2, <2>4
  <2>9. TdcKept'
    BY <1>1, <2>6, <2>8 DEF TdcKept
  <2>10. Forced'
    BY <1>1, <2>6, <2>8 DEF Forced, TdcInForce
  <2>11. TdcoFits'
    BY <1>1, <2>6, <2>8 DEF TdcoFits
  <2> QED BY <2>7, <2>9, <2>10, <2>11
<1>8. ChannelsKept
  BY <1>6, <1>7
<1> HIDE DEF ChannelsKept
<1>9. TypeOK'
  <2>1. lastSetup' \in [kind : Written \cup {"none"}, chan : Nat]
    BY <1>1, <1>5 DEF TypeOK
  <2>2. rem' \in 0 .. MaxPackets /\ at' \in 0 .. MaxPackets
    BY <1>2, <1>3, <1>4
  <2>3. xfer' = NoTransfer \/ xfer' \in Transfers'
    BY <1>1, <1>3 DEF TypeOK, Transfers
  <2> QED BY <1>1, <1>2, <1>3, <1>4, <1>8, <2>1, <2>2, <2>3 DEF TypeOK, ChannelsKept
<1>10. Prepared'
  BY <1>3 DEF Prepared
<1> QED BY <1>8, <1>9, <1>10 DEF ChannelsKept

LEMMA SuspendStep ==
  ASSUME ChannelInv, Suspend
  PROVE  TypeOK' /\ Prepared' /\ TdcKept' /\ Forced' /\ TdcoFits'
<1>1. /\ channel' = [c \in Chans |-> Disabled(channel[c])] /\ hostTdc' = [c \in Chans |-> NoTdc]
      /\ suspended' = TRUE /\ UNCHANGED <<configured, ep0Vars, xfer, done>>
  BY DEF Suspend
<1>2. TypeOK /\ Prepared
  BY DEF ChannelInv
<1>3. NoTdc \in AnyTdc
  BY ConstantsAssumption DEF NoTdc, AnyTdc, ByHost
<1>4. \A c \in Chans : /\ channel'[c] \in Channel
                       /\ ~channel'[c].tdcSet /\ channel'[c].mode = Stopped
  BY <1>1, <1>2, DisabledType DEF TypeOK
<1>5. channel' \in [Chans -> Channel] /\ hostTdc' \in [Chans -> AnyTdc]
  BY <1>1, <1>3, <1>4
<1>6. TypeOK'
  BY <1>1, <1>2, <1>5 DEF TypeOK, ep0Vars
<1>7. TdcKept' /\ Forced' /\ TdcoFits'
  BY <1>4 DEF TdcKept, Forced, TdcInForce, TdcoFits, Stopped
<1>8. Prepared'
  <2>1. "mode" \notin DeviceWide
    BY DEF DeviceWide
  <2> QED BY <1>1, <1>2, <1>4, <2>1 DEF Prepared, ep0Vars, Stopped
<1> QED BY <1>6, <1>7, <1>8

LEMMA ChannelStep == ChannelInv /\ [Next]_vars => ChannelInv'
<1> SUFFICES ASSUME ChannelInv, [Next]_vars PROVE ChannelInv'
  OBVIOUS
<1>1. IInv'
  BY StepInv DEF ChannelInv
<1>2. TypeOK /\ Prepared /\ TdcKept /\ Forced /\ TdcoFits
  BY DEF ChannelInv
<1>3. CASE UNCHANGED <<channel, hostTdc>>
  <2>1. TdcKept' /\ Forced' /\ TdcoFits'
    BY <1>2, <1>3 DEF TdcKept, Forced, TdcInForce, TdcoFits
  <2>2. TypeOK' /\ Prepared'
    <3>1. CASE \E t \in Transfers : Refuse(t) \/ PrepareRx(t) \/ PrepareNoData(t) \/ SendData(t)
      BY <3>1, BeginStep
    <3>2. CASE ContinueRx
      BY <3>2, ContinueStep
    <3>3. CASE RxReady
      BY <3>3, RxReadyStep
    <3>4. CASE Suspend
      BY <3>4, SuspendStep
    <3>5. CASE DataIn
      BY <1>2, <3>5 DEF DataIn, usbVars, TypeOK, Prepared, NoTransfer, ChannelInv, IInv, DataStage
    <3>6. CASE StatusOut
      BY <1>2, <3>6 DEF StatusOut, usbVars, TypeOK, Prepared
    <3>7. CASE SetConfig
      BY <1>2, <3>7 DEF SetConfig, ep0Vars, TypeOK, Prepared
    <3>8. CASE Reset
      BY <1>2, <3>8 DEF Reset, TypeOK, Prepared
    <3>9. CASE Resume
      <4>1. suspended' \in BOOLEAN /\ UNCHANGED <<configured, channel, ep0Vars, xfer, done, hostTdc>>
        BY <3>9 DEF Resume
      <4> QED BY <1>2, <4>1 DEF ep0Vars, TypeOK, Prepared
    <3>10. CASE UNCHANGED vars
      BY <1>2, <3>10 DEF vars, usbVars, ep0Vars, TypeOK, Prepared
    <3> QED
      BY <3>1, <3>2, <3>3, <3>4, <3>5, <3>6, <3>7, <3>8, <3>9, <3>10 DEF Next
  <2> QED BY <1>1, <2>1, <2>2 DEF ChannelInv
<1>4. CASE ~UNCHANGED <<channel, hostTdc>>
  <2>1. RxReady \/ Suspend
    BY <1>4 DEF Next, Refuse, PrepareRx, PrepareNoData, SendData, Begins, ContinueRx, DataIn, StatusOut, SetConfig,
      Reset, Resume, vars
  <2> QED BY <1>1, <2>1, RxReadyStep, SuspendStep DEF ChannelInv
<1> QED BY <1>3, <1>4

\* Types; no data stage goes beyond the union ep0 (usbd_gs_can.c:492), whatever
\* the host sends.
THEOREM ControlTypeCorrect == Spec => []TypeOK
<1>1. ChannelInv => TypeOK
  BY DEF ChannelInv
<1> QED BY ChannelInit, ChannelStep, <1>1, PTL DEF Spec

\* A calculated delay compensation belongs to the data bit timing the controller
\* runs with (can_common.c:156-186, 209-219), even if the host starts a channel twice.
THEOREM TdcoFitsCorrect == Spec => []TdcoFits
<1>1. ChannelInv => TdcoFits
  BY DEF ChannelInv
<1> QED BY ChannelInit, ChannelStep, <1>1, PTL DEF Spec

\* A channel that runs with GS_CAN_FEATURE_TDC runs with the compensation the host
\* has set since the channel was disabled (can_common.c:79), if the host starts no
\* running channel.
THEOREM TdcInForceCorrect == ~StartsRunning => (Spec => []TdcInForce)
<1> SUFFICES ASSUME ~StartsRunning PROVE Spec => []TdcInForce
  OBVIOUS
<1>1. ChannelInv => TdcInForce
  BY DEF ChannelInv, Forced
<1> QED BY ChannelInit, ChannelStep, <1>1, PTL DEF Spec
=============================================================================
