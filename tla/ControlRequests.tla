--------------------------- MODULE ControlRequests ---------------------------
(***************************************************************************)
(* Control transfers on endpoint 0 and what they do to the channels, for a *)
(* board with CAN FD (CONFIG_CANFD).  The setup stage is checked by        *)
(* Config_Request, the data stage is received into the union ep0 and acted *)
(* upon by EP0_RxReady.  The host can give up a transfer at any time: the  *)
(* next setup packet replaces it.                                          *)
(*                                                                         *)
(* Requests are addressed to the interface, as every gs_usb host does.     *)
(* Each handler runs in the USB interrupt; the main loop reads what they   *)
(* set but writes none of it.                                              *)
(***************************************************************************)
EXTENDS Naturals

CONSTANTS
  NumChannels,     \* NUM_CAN_CHANNEL
  Requests,        \* those the host makes use of
  Timings,         \* bit timings that pass the check
  Compensated,     \* those with a prescaler of 1 or 2
  MaxPackets,      \* packets that fill the union ep0
  StartsRunning    \* the host may start a channel it has not reset

(* Requests. *)
Timed   == {"bittiming", "data_bittiming"}
Written == Timed \cup {"mode", "set_tdc", "bus_off_recovery", "set_termination",
                       "identify", "host_format"}
Read    == {"get_tdc", "get_state", "bt_const", "device_config"}
DeviceWide   == {"host_format", "device_config"}
NotCompiledIn == {"set_filter", "get_filter"}

ASSUME ConstantsAssumption ==
  /\ NumChannels \in Nat \ {0}
  /\ Timings \subseteq Nat \ {0} /\ Compensated \subseteq Timings
  /\ MaxPackets \in Nat \ {0}
  /\ Requests \subseteq Written \cup Read \cup NotCompiledIn
  /\ StartsRunning \in BOOLEAN

Chans == 0 .. NumChannels - 1

(* Payloads.  A bit timing is a number; 0 is one that fails the check, and what *)
(* a channel has before the first.  Word 3 of a timing is its sjw, word 3 of a  *)
(* struct gs_device_tdc its mode.  (The controller has no manual mode.)         *)
Unset == 0
ModeOff   == 1     \* GS_CAN_TDC_MODE_OFF
ModeAuto  == 2     \* GS_CAN_TDC_MODE_AUTO
ByHost == 0    \* a tdco of the host's choice; the others are calculated
NoTdc == [mode |-> 0, tdco |-> 0]
Tdcs  == {[mode |-> ModeOff, tdco |-> ByHost], [mode |-> ModeAuto, tdco |-> ByHost]}

\* GS_CAN_MODE_RESET, and GS_CAN_MODE_START with its features.
Stopped == [on |-> FALSE, fd |-> FALSE, tdc |-> FALSE]
Starts  == [on : {TRUE}, fd : BOOLEAN, tdc : BOOLEAN]

Payloads(kind) ==
  CASE kind \in Timed    -> Timings \cup {Unset}
    [] kind = "set_tdc"  -> Tdcs \cup {NoTdc}
    [] kind = "mode"     -> Starts \cup {Stopped}
    [] OTHER             -> {Unset}

NotSetUp == [dbt |-> Unset, tdc |-> NoTdc]

NoTransfer == [kind |-> "none", chan |-> 0, packets |-> 0]

VARIABLES
  configured, suspended,   \* dev_state
  channel,    \* hcan->channels: what the requests set, and the controller
  lastSetup,  \* hcan->last_setup_request
  ep0,        \* hcan->ep0: the first packet in it
  readsOff,   \* word 3 of ep0 is GS_CAN_TDC_MODE_OFF
  ep0State,   \* pdev->ep0_state
  rem, at,    \* rem_length and the offset of xfer_buff, in packets
  in,         \* STAT_TX of endpoint 0, and what it offers
  xfer,       \* the host's transfer
  done,       \* history: the calls of EP0_RxReady in it
  hostTdc     \* history: the TDC the host has set since the channel was disabled

usbVars == <<configured, suspended>>
ep0Vars == <<lastSetup, ep0, readsOff, ep0State, rem, at, in>>
vars == <<usbVars, channel, ep0Vars, xfer, done, hostTdc>>

Init ==
  /\ configured = FALSE /\ suspended = FALSE
  /\ channel = [c \in Chans |->
       [dbt |-> Unset, tdc |-> NoTdc, tdcSet |-> FALSE,
        mode |-> Stopped, ctrl |-> NotSetUp]]
  /\ lastSetup = [kind |-> "none", chan |-> 0]
  /\ ep0 = [kind |-> "none", arg |-> Unset] /\ readsOff = FALSE
  /\ ep0State = "idle" /\ rem = 0 /\ at = 0 /\ in = "nak"
  /\ xfer = NoTransfer /\ done = 0
  /\ hostTdc = [c \in Chans |-> NoTdc]

-----------------------------------------------------------------------------
(* What a request does to a channel. *)

\* Mutant: the flags stay.
DisabledFlags(ch) == [ch EXCEPT !.tdc = NoTdc, !.mode = Stopped, !.ctrl = NotSetUp]

\* can_disable.  A controller that is stopped is set up anew before it starts.
Disabled(ch) ==
  [ch EXCEPT !.tdc = NoTdc, !.tdcSet = FALSE, !.mode = Stopped, !.ctrl = NotSetUp]

\* can_calc_tdco.  The sample point of data bit timing t is called t.
CalcTdc(ch, mode) ==
  CASE mode.tdc -> ch.tdc
    [] ~mode.tdc /\ mode.fd /\ ch.dbt \in Compensated -> [mode |-> ModeAuto, tdco |-> ch.dbt]
    [] OTHER -> [ch.tdc EXCEPT !.mode = ModeOff]

\* can_drv_enable: the controller is set up from the channel.
Configured(ch) == [ch EXCEPT !.ctrl = [dbt |-> ch.dbt, tdc |-> ch.tdc]]

\* Mutant: the controller is set up before the TDC is calculated.
EnabledFirst(ch, mode) ==
  LET up == Configured([ch EXCEPT !.mode = mode])
  IN [up EXCEPT !.tdc = CalcTdc(ch, mode)]

\* can_enable.
Enabled(ch, mode) == Configured([ch EXCEPT !.mode = mode, !.tdc = CalcTdc(ch, mode)])

\* The checks of EP0_RxReady that can fail for channel c; whether it is bus-off is
\* not known here.
Accepts(c, kind, arg, busOff) ==
  CASE kind \in Timed -> arg \in Timings
    [] kind = "set_tdc" -> ~channel[c].mode.on /\ arg \in Tdcs
    [] kind = "mode" -> (arg.on /\ arg.tdc) => channel[c].tdcSet
    [] kind = "bus_off_recovery" -> channel[c].mode.on /\ busOff
    [] OTHER -> TRUE

\* What EP0_RxReady makes of a channel.  The arbitration bit timing is only handed on
\* and left out, as are LEDs and termination; leaving bus-off is in CanChannel.
After(ch, kind, arg) ==
  CASE kind = "data_bittiming" -> [ch EXCEPT !.dbt = arg]
    [] kind = "set_tdc" -> [ch EXCEPT !.tdc = arg, !.tdcSet = TRUE]
    [] kind = "mode" -> IF arg.on THEN Enabled(ch, arg) ELSE Disabled(ch)
    [] OTHER -> ch

\* What the host has set of a channel's TDC then.
TdcSetBy(c, kind, arg) ==
  CASE kind = "set_tdc" -> arg
    [] kind = "mode" -> IF arg.on THEN hostTdc[c] ELSE NoTdc
    [] OTHER -> hostTdc[c]

-----------------------------------------------------------------------------
(* The setup stage: Config_Request. *)

\* The host starts a transfer, giving up the one before.
Begins(t) ==
  /\ configured /\ ~suspended
  /\ xfer' = t /\ done' = 0
  /\ UNCHANGED <<usbVars, channel, hostTdc>>

\* The request is known, its channel exists, and wLength is enough for its data; to
\* leave bus-off takes none.
Valid(t) ==
  /\ t.kind \notin NotCompiledIn
  /\ t.chan \in Chans \/ t.kind \in DeviceWide
  /\ t.packets > 0 \/ t.kind = "bus_off_recovery"

\* Mutant: the request is not stalled.
RefuseSilently(t) ==
  /\ Begins(t)
  /\ ~Valid(t) \/ (t.kind \in Written /\ t.packets > MaxPackets)
  /\ ep0State' = "setup" /\ in' = "nak"
  /\ UNCHANGED <<lastSetup, ep0, readsOff, rem, at>>

\* out_fail: USBD_CtlError.
Refuse(t) ==
  /\ Begins(t)
  /\ ~Valid(t) \/ (t.kind \in Written /\ t.packets > MaxPackets)
  /\ ep0State' = "setup" /\ in' = "stall"
  /\ UNCHANGED <<lastSetup, ep0, readsOff, rem, at>>

\* Mutant: wLength is not compared with the size of ep0.
PrepareRxAny(t) ==
  /\ Begins(t)
  /\ Valid(t) /\ t.kind \in Written /\ t.packets > 0
  /\ lastSetup' = [kind |-> t.kind, chan |-> t.chan]
  /\ ep0State' = "data_out" /\ in' = "nak" /\ rem' = t.packets /\ at' = 0
  /\ UNCHANGED <<ep0, readsOff>>

\* Mutant: rem_length is not set anew.
PrepareRxRem(t) ==
  /\ Begins(t)
  /\ Valid(t) /\ t.kind \in Written /\ t.packets \in 1 .. MaxPackets
  /\ lastSetup' = [kind |-> t.kind, chan |-> t.chan]
  /\ ep0State' = "data_out" /\ in' = "nak" /\ at' = 0
  /\ rem' = IF rem = 0 THEN t.packets ELSE rem
  /\ UNCHANGED <<ep0, readsOff>>

\* Host to device: USBD_CtlPrepareRx.
PrepareRx(t) ==
  /\ Begins(t)
  /\ Valid(t) /\ t.kind \in Written /\ t.packets \in 1 .. MaxPackets
  /\ lastSetup' = [kind |-> t.kind, chan |-> t.chan]
  /\ ep0State' = "data_out" /\ in' = "nak" /\ rem' = t.packets /\ at' = 0
  /\ UNCHANGED <<ep0, readsOff>>

\* USBD_CtlPrepareRx for no data: USBD_StdItfReq acknowledges the request at once, and
\* EP0_RxReady is not called for it.
PrepareNoData(t) ==
  /\ Begins(t)
  /\ Valid(t) /\ t.packets = 0
  /\ lastSetup' = [kind |-> t.kind, chan |-> t.chan]
  /\ ep0State' = "status_in" /\ in' = "status" /\ rem' = 0 /\ at' = 0
  /\ UNCHANGED <<ep0, readsOff>>

\* can_get_device_tdc: whether it is off is looked up in the answer to be written.
DeviceTdc(ch) == IF readsOff THEN [mode |-> ModeOff, tdco |-> ByHost] ELSE ch.tdc

\* Device to host: USBD_CtlSendData.  TDC is written into ep0 first; so are the state
\* and the termination, to its first three words.
SendData(t) ==
  /\ Begins(t)
  /\ Valid(t) /\ t.kind \in Read
  /\ IF t.kind = "get_tdc"
     THEN LET tdc == DeviceTdc(channel[t.chan])
          IN ep0' = [kind |-> t.kind, arg |-> tdc] /\ readsOff' = (tdc.mode = ModeOff)
     ELSE UNCHANGED <<ep0, readsOff>>
  /\ ep0State' = "data_in" /\ in' = "data"
  /\ UNCHANGED <<lastSetup, rem, at>>

-----------------------------------------------------------------------------
(* The data and status stages: USBD_LL_DataOutStage, USBD_LL_DataInStage. *)

\* Whether word 3 of the union ep0 reads as ModeOff once such data is in it; data that is
\* too short leaves it as it is.  (The host pads with 0.)
ReadsOff(kind, arg, packets) ==
  CASE kind \in Timed   -> arg = ModeOff
    [] kind = "set_tdc" -> arg.mode = ModeOff
    [] OTHER            -> packets = 1 /\ readsOff

\* The next packet of the data stage is written to where the last one ended; the
\* first one holds all the data.
Received ==
  IF at = 0
  THEN \E arg \in Payloads(xfer.kind) :
         /\ (~StartsRunning /\ xfer.kind = "mode" /\ arg.on) => ~channel[xfer.chan].mode.on
         /\ ep0' = [kind |-> xfer.kind, arg |-> arg]
         /\ readsOff' = ReadsOff(xfer.kind, arg, xfer.packets)
  ELSE UNCHANGED <<ep0, readsOff>>

\* The host sends a packet of its data stage.
Sends ==
  /\ configured /\ ~suspended
  /\ xfer.kind \in Written /\ ep0State = "data_out" /\ at < xfer.packets

\* Mutant: every packet is acknowledged with a status stage.
ContinueRxAcked ==
  /\ Sends /\ rem > 1
  /\ Received
  /\ rem' = rem - 1 /\ at' = at + 1 /\ in' = "status"
  /\ UNCHANGED <<usbVars, channel, lastSetup, ep0State, xfer, done, hostTdc>>

\* A packet that is not the last: USBD_CtlContinueRx.
ContinueRx ==
  /\ Sends /\ rem > 1
  /\ Received
  /\ rem' = rem - 1 /\ at' = at + 1
  /\ UNCHANGED <<usbVars, channel, lastSetup, ep0State, in, xfer, done, hostTdc>>

\* The last packet: EP0_RxReady acts on last_setup_request, and the transfer is
\* acknowledged whether or not it refused.
RxReady ==
  /\ Sends /\ rem = 1
  /\ Received
  /\ at' = at + 1 /\ ep0State' = "status_in" /\ in' = "status" /\ done' = done + 1
  /\ LET c == lastSetup.chan  kind == lastSetup.kind  arg == ep0'.arg
     IN \/ /\ c \notin Chans \/ ep0'.kind # kind
           /\ lastSetup' = [lastSetup EXCEPT !.kind = "none"]
           /\ UNCHANGED <<channel, hostTdc>>
        \/ \E busOff \in BOOLEAN :
             /\ c \in Chans /\ ep0'.kind = kind
             /\ IF Accepts(c, kind, arg, busOff)
                THEN /\ channel' = [channel EXCEPT ![c] = After(@, kind, arg)]
                     /\ hostTdc' = [hostTdc EXCEPT ![c] = TdcSetBy(c, kind, arg)]
                     /\ lastSetup' = [lastSetup EXCEPT !.kind = "none"]
                ELSE UNCHANGED <<channel, hostTdc, lastSetup>>
  /\ UNCHANGED <<usbVars, rem, xfer>>

\* The host has fetched the answer, or the acknowledgement: the transfer is over,
\* and the IN endpoint is set to STALL until the next one.
DataIn ==
  /\ ~suspended /\ in \in {"data", "status"}
  /\ in' = "stall" /\ xfer' = NoTransfer
  /\ ep0State' = IF in = "data" THEN "status_out" ELSE ep0State
  /\ UNCHANGED <<usbVars, channel, lastSetup, ep0, readsOff, rem, at, done, hostTdc>>

\* The status stage of a transfer to the host.
StatusOut ==
  /\ ~suspended /\ ep0State = "status_out"
  /\ ep0State' = "idle" /\ in' = "stall"
  /\ UNCHANGED <<usbVars, channel, lastSetup, ep0, readsOff, rem, at, xfer, done, hostTdc>>

-----------------------------------------------------------------------------
(* The device state. *)

\* The host addresses and configures the device.
SetConfig ==
  /\ ~configured /\ ~suspended
  /\ configured' = TRUE
  /\ UNCHANGED <<suspended, channel, ep0Vars, xfer, done, hostTdc>>

\* USBD_LL_Reset.  Channels go on as they are.
Reset ==
  /\ configured \/ suspended
  /\ configured' = FALSE /\ suspended' = FALSE
  /\ ep0State' = "idle" /\ in' = "nak" /\ xfer' = NoTransfer
  /\ UNCHANGED <<channel, lastSetup, ep0, readsOff, rem, at, done, hostTdc>>

\* USBD_GS_CAN_SuspendCallback: every channel is disabled.
Suspend ==
  /\ ~suspended
  /\ suspended' = TRUE
  /\ channel' = [c \in Chans |-> Disabled(channel[c])]
  /\ hostTdc' = [c \in Chans |-> NoTdc]
  /\ UNCHANGED <<configured, ep0Vars, xfer, done>>

Resume ==
  /\ suspended
  /\ suspended' = FALSE
  /\ UNCHANGED <<configured, channel, ep0Vars, xfer, done, hostTdc>>

-----------------------------------------------------------------------------
\* At most one packet more than the union ep0 takes; channels that do not exist are
\* tried with one packet.
Transfers ==
  [kind : Written \cap Requests, chan : Chans, packets : 0 .. MaxPackets + 1]
    \cup [kind : Requests, chan : 0 .. NumChannels, packets : {1}]

Next ==
  \/ \E t \in Transfers : Refuse(t) \/ PrepareRx(t) \/ PrepareNoData(t) \/ SendData(t)
  \/ ContinueRx \/ RxReady \/ DataIn \/ StatusOut
  \/ SetConfig \/ Reset \/ Suspend \/ Resume

Spec == Init /\ [][Next]_vars

-----------------------------------------------------------------------------
(* Properties. *)

Modes == Starts \cup {Stopped}
AnyTdc == [mode : {0, ModeOff, ModeAuto}, tdco : Timings \cup {ByHost}]
Controller == [dbt : Timings \cup {Unset}, tdc : AnyTdc]
Channel == [dbt : Timings \cup {Unset}, tdc : AnyTdc, tdcSet : BOOLEAN, mode : Modes,
            ctrl : Controller]

\* Types; the data stage stays within the union ep0.
TypeOK ==
  /\ configured \in BOOLEAN /\ suspended \in BOOLEAN
  /\ channel \in [Chans -> Channel] /\ hostTdc \in [Chans -> AnyTdc]
  /\ lastSetup \in [kind : Written \cup {"none"}, chan : Nat]
  /\ ep0.kind \in Written \cup Read \cup {"none"} /\ readsOff \in BOOLEAN
  /\ ep0State \in {"idle", "setup", "data_in", "data_out", "status_in", "status_out"}
  /\ rem \in 0 .. MaxPackets /\ at \in 0 .. MaxPackets
  /\ in \in {"nak", "stall", "data", "status"}
  /\ xfer = NoTransfer \/ xfer \in Transfers
  /\ done \in {0, 1}

\* EP0_RxReady acts on the request of the very transfer whose data stage ended, on
\* data all of which came in that data stage, whatever was begun and given up before.
OwnData ==
  [][done' > done =>
       /\ lastSetup.kind = xfer.kind /\ lastSetup.chan = xfer.chan
       /\ ep0'.kind = xfer.kind /\ at' = xfer.packets]_vars

\* A setting is acknowledged only after EP0_RxReady was called for it, once, and
\* stalled only if it was not.  (EP0_RxReady may have refused it: its result is
\* ignored.)  Excepted is GS_USB_BREQ_BUS_OFF_RECOVERY with wLength 0, acknowledged
\* without a call.
HandledOnce ==
  xfer.kind \in Written =>
    /\ in = "status" => done = 1 \/ (xfer.kind = "bus_off_recovery" /\ xfer.packets = 0)
    /\ in = "stall" => done = 0

\* Endpoint 0 never leaves the host waiting: it offers something, has stalled, or
\* waits for data the host still has to send.
Answered ==
  xfer.kind # "none" => in # "nak" \/ (ep0State = "data_out" /\ at < xfer.packets)

\* "TDC requires TDC parameters to be set" (can_common.c:79): a channel that runs
\* with GS_CAN_FEATURE_TDC runs with those the host has set for it.
TdcInForce ==
  \A c \in Chans : channel[c].mode.tdc =>
    hostTdc[c] \in Tdcs /\ channel[c].ctrl.tdc = hostTdc[c]

\* A delay compensation the device has calculated is that of the data bit timing
\* the controller runs with.
TdcoFits ==
  \A c \in Chans : LET ch == channel[c] IN
    ch.mode.on /\ ~ch.mode.tdc /\ ch.ctrl.tdc.mode = ModeAuto =>
      ch.mode.fd /\ ch.ctrl.dbt \in Compensated /\ ch.ctrl.tdc.tdco = ch.ctrl.dbt

\* What the data stage relies on: nothing has been acted upon in it, it belongs to
\* last_setup_request, and what has come and what is to come add up.
DataStage ==
  ep0State = "data_out" =>
    /\ in = "nak" /\ done = 0
    /\ lastSetup.kind = xfer.kind /\ lastSetup.chan = xfer.chan
    /\ rem \in Nat \ {0} /\ at \in Nat /\ at + rem = xfer.packets
    /\ at > 0 => ep0.kind = xfer.kind

\* GS_USB_BREQ_GET_TDC ("get_tdc") answers whether the channel's delay compensation
\* is on.
TdcAnswered ==
  [][in' = "data" /\ xfer' # xfer /\ xfer'.kind = "get_tdc" =>
       (ep0'.arg.mode = ModeAuto <=> channel[xfer'.chan].tdc.mode = ModeAuto)]_vars
=============================================================================
