----------------------------- MODULE HostFrames -----------------------------
(***************************************************************************)
(* The frame objects of the firmware and everything that moves them: the   *)
(* main loop (main.c, can_common.c, the lower half of usbd_gs_can.c) and   *)
(* the USB interrupt (the class callbacks of usbd_gs_can.c, as the ST      *)
(* stack and the HAL call them).                                           *)
(*                                                                         *)
(* There is one core.  An interrupt handler runs to completion between two *)
(* steps of the main loop, and a stretch of the main loop between          *)
(* disable_irq() and restore_irq() is one step.  Each action is such a     *)
(* handler or such a stretch; pc says where the main loop is.              *)
(***************************************************************************)
EXTENDS Integers, Sequences, FiniteSets, Functions

CONSTANTS
  Frames,          \* msgbuf[], the statically allocated frame objects
  NumChannels,     \* NUM_CAN_CHANNEL
  RxBufs,          \* USBD_GS_CAN_RX_BUFFER_COUNT
  DoubleBuffered,  \* OUT endpoint of USB / USB_DRD (TRUE) or of OTG (FALSE)
  NULL

\* The environment: what the host and the bus may do.
CONSTANTS
  CanTraffic,      \* the CAN bus delivers frames and errors
  Suspends,        \* the host suspends the bus
  Reenumerates,    \* the host resets or reconfigures a configured device
  EagerHost,       \* the host may configure the device within one iteration
                   \* of the main loop (or during the start-up blinking)
  TokenInWindow    \* an OUT token may hit the instants in which DataOut has
                   \* armed the endpoint it is about to set to NAK

ASSUME ConstantsAssumption ==
  /\ IsFiniteSet(Frames)
  /\ NULL \notin Frames
  /\ NumChannels \in Nat \ {0}
  /\ RxBufs \in Nat \ {0}
  /\ DoubleBuffered \in BOOLEAN
  /\ \A b \in {CanTraffic, Suspends, Reenumerates, EagerHost, TokenInWindow} :
       b \in BOOLEAN

Chans == 0 .. NumChannels - 1

VARIABLES
  pool,        \* list_frame_pool, as a set: every frame in it is alike
  toHost,      \* list_to_host
  fromHost,    \* channels[c].list_from_host
  rxBuf,       \* from_host_buf[] up to its first NULL entry
  toHostBuf,   \* to_host_buf
  held,        \* the frame_object of the main loop's function, off any list
  chan,        \* the channel number written in each frame
  pc, ch,      \* the main loop: next step, loop index
  txArg,       \* the frame USBD_GS_CAN_SendFrame was called with
  epIn, xferIn,    \* IN endpoint: STAT_TX and the frame it transmits
  epOut, xferOut,  \* OUT endpoint: STAT_RX and the frame it receives into
  rxHw,        \* a packet was acknowledged and its interrupt not served
  configured, suspended,  \* dev_state; is_usb_suspend_cb
  started,     \* the channels whose controller was started since power-up
  running,     \* those that run: started last, not reset and not suspended since
  settled      \* a main loop iteration ended since the last (bus) reset

frameVars == <<pool, toHost, fromHost, rxBuf, toHostBuf, held, chan>>
mainVars  == <<pc, ch, txArg, settled>>
inVars    == <<epIn, xferIn>>
outVars   == <<epOut, xferOut, rxHw>>
devVars   == <<configured, suspended, started, running>>
vars == <<frameVars, mainVars, inVars, outVars, devVars>>

-----------------------------------------------------------------------------
(* Sequences. *)

\* The sequences that list the set S once each.
Listings(S) == Bijection(1 .. Cardinality(S), S)

\* The elements of s that are in S, in the order they have in s.
InOrder(s, S) ==
  {t \in Listings(S) :
     \A i, j \in DOMAIN t : i < j =>
       \E k, l \in DOMAIN s : k < l /\ s[k] = t[i] /\ s[l] = t[j]}

Smaller(m, n) == IF m <= n THEN m ELSE n

\* from_host_buf[0].
FirstRxBuf(buf) == IF buf = <<>> THEN NULL ELSE Head(buf)

-----------------------------------------------------------------------------
(* The USB endpoints. *)

\* Mutant: from_host_buf[0] is read before the buffers are shifted.
PrepareReceiveBeforeShift(buf) ==
  /\ xferOut' = FirstRxBuf(rxBuf)
  /\ epOut' = IF epOut = "closed" THEN "closed" ELSE "valid"

\* USBD_GS_CAN_PrepareReceive.  The status of a closed endpoint stays: opening
\* the endpoint starts from scratch.
PrepareReceive(buf) ==
  /\ xferOut' = FirstRxBuf(buf)
  /\ epOut' = IF epOut = "closed" THEN "closed" ELSE "valid"

\* USBD_GS_Prefill_RX_Buffers: take frames of the pool until from_host_buf[] is
\* full or the pool empty.
Prefill(buf) ==
  LET n == Smaller(RxBufs - Len(buf), Cardinality(pool))
  IN \E t \in Injection(1 .. n, pool) :
       /\ rxBuf' = buf \o t
       /\ pool' = pool \ Range(t)

\* Mutant: TRUE also if the pool ran out before every entry was filled.
PrefillChanged(buf) == Len(buf) < RxBufs /\ pool # {}

\* Its result: something was added and every entry is now valid.
PrefillReady(buf) == Len(buf) < RxBufs /\ RxBufs - Len(buf) <= Cardinality(pool)

\* USBD_GS_CAN_DeInit: purge to_host_buf, clear the suspend flag, close both
\* endpoints.
DeInit ==
  /\ pool' = pool \cup ({toHostBuf} \ {NULL})
  /\ toHostBuf' = NULL
  /\ suspended' = FALSE
  /\ epIn' = "closed" /\ xferIn' = NULL
  /\ epOut' = "closed" /\ xferOut' = NULL /\ rxHw' = 0

-----------------------------------------------------------------------------
(* Initial state: main() has filled the pool and started USB, and blinks.   *)

Init ==
  /\ pool = Frames
  /\ toHost = <<>>
  /\ fromHost = [c \in Chans |-> <<>>]
  /\ rxBuf = <<>>
  /\ toHostBuf = NULL
  /\ held = NULL
  /\ chan = [f \in Frames |-> 0]
  /\ pc = "boot" /\ ch = 0 /\ txArg = NULL /\ settled = FALSE
  /\ epIn = "closed" /\ xferIn = NULL
  /\ epOut = "closed" /\ xferOut = NULL /\ rxHw = 0
  /\ configured = FALSE /\ suspended = FALSE /\ started = {} /\ running = {}

-----------------------------------------------------------------------------
(* The main loop. *)

\* for (i = 0; i < ARRAY_SIZE(channels); i++): from step "here" of channel ch to
\* step "here" of the next channel or, after the last, to step "after".
NextChannel(here, after) ==
  IF ch + 1 < NumChannels
  THEN ch' = ch + 1 /\ pc' = here
  ELSE ch' = 0 /\ pc' = after

Boot ==
  /\ pc = "boot"
  /\ pc' = "send"
  /\ UNCHANGED <<frameVars, ch, txArg, settled, inVars, outVars, devVars>>

\* CAN_SendFrame: nothing to send.
SendIdle ==
  /\ pc = "send" /\ fromHost[ch] = <<>>
  /\ NextChannel("send", "rfh")
  /\ UNCHANGED <<frameVars, txArg, settled, inVars, outVars, devVars>>

\* CAN_SendFrame: unlink the first frame of the channel's list.
SendTake ==
  /\ pc = "send" /\ fromHost[ch] # <<>>
  /\ held' = Head(fromHost[ch])
  /\ fromHost' = [fromHost EXCEPT ![ch] = Tail(@)]
  /\ pc' = "send_put"
  /\ UNCHANGED <<pool, toHost, rxBuf, toHostBuf, chan, ch, txArg, settled,
                 inVars, outVars, devVars>>

\* CAN_SendFrame: the controller took it; echo it to the host.
SendEcho ==
  /\ pc = "send_put"
  /\ toHost' = Append(toHost, held)
  /\ held' = NULL
  /\ NextChannel("send", "rfh")
  /\ UNCHANGED <<pool, fromHost, rxBuf, toHostBuf, chan, txArg, settled,
                 inVars, outVars, devVars>>

\* Mutant: list_add_tail in place of list_add.
SendRetryAtTail ==
  /\ pc = "send_put"
  /\ fromHost' = [fromHost EXCEPT ![ch] = Append(@, held)]
  /\ held' = NULL
  /\ NextChannel("send", "rfh")
  /\ UNCHANGED <<pool, toHost, rxBuf, toHostBuf, chan, txArg, settled,
                 inVars, outVars, devVars>>

\* CAN_SendFrame: the controller is full; put the frame back in front.
SendRetry ==
  /\ pc = "send_put"
  /\ fromHost' = [fromHost EXCEPT ![ch] = <<held>> \o @]
  /\ held' = NULL
  /\ NextChannel("send", "rfh")
  /\ UNCHANGED <<pool, toHost, rxBuf, toHostBuf, chan, txArg, settled,
                 inVars, outVars, devVars>>

\* Mutant: the buffers are filled but the endpoint is not armed again.
ReceiveFromHostUnarmed ==
  /\ pc = "rfh"
  /\ Prefill(rxBuf)
  /\ pc' = "sth"
  /\ UNCHANGED <<toHost, fromHost, toHostBuf, held, chan, ch, txArg, settled,
                 inVars, outVars, devVars>>

\* USBD_GS_CAN_ReceiveFromHost.
ReceiveFromHost ==
  /\ pc = "rfh"
  /\ Prefill(rxBuf)
  /\ IF PrefillReady(rxBuf)
     THEN PrepareReceive(rxBuf')
     ELSE UNCHANGED <<epOut, xferOut>>
  /\ pc' = "sth"
  /\ UNCHANGED <<toHost, fromHost, toHostBuf, held, chan, ch, txArg, settled,
                 inVars, rxHw, devVars>>

\* USBD_GS_CAN_SendToHost: a transfer is under way or there is nothing to send.
ToHostIdle ==
  /\ pc = "sth" /\ (toHostBuf # NULL \/ toHost = <<>>)
  /\ pc' = "rx"
  /\ UNCHANGED <<frameVars, ch, txArg, settled, inVars, outVars, devVars>>

\* Mutant: the next frame is taken while a transfer is under way.
ToHostTakeBusy ==
  /\ pc = "sth" /\ toHost # <<>>
  /\ toHostBuf' = Head(toHost)
  /\ toHost' = Tail(toHost)
  /\ pc' = "sth_arg"
  /\ UNCHANGED <<pool, fromHost, rxBuf, held, chan, ch, txArg, settled,
                 inVars, outVars, devVars>>

\* USBD_GS_CAN_SendToHost: the first frame becomes to_host_buf.
ToHostTake ==
  /\ pc = "sth" /\ toHostBuf = NULL /\ toHost # <<>>
  /\ toHostBuf' = Head(toHost)
  /\ toHost' = Tail(toHost)
  /\ pc' = "sth_arg"
  /\ UNCHANGED <<pool, fromHost, rxBuf, held, chan, ch, txArg, settled,
                 inVars, outVars, devVars>>

\* The call of USBD_GS_CAN_SendFrame reads to_host_buf again, interrupts being
\* enabled, and USBD_GS_CAN_Transmit tests is_usb_suspend_cb.  One step: an
\* interrupt between the two has the effect of one before or after both.
ToHostArg ==
  /\ pc = "sth_arg"
  /\ txArg' = toHostBuf
  /\ pc' = IF suspended THEN "sth_drop" ELSE "sth_xmit"
  /\ UNCHANGED <<frameVars, ch, settled, inVars, outVars, devVars>>

\* USBD_LL_Transmit.  On a closed endpoint nothing is ever transmitted; the
\* result is USBD_OK all the same.
ToHostXmit ==
  /\ pc = "sth_xmit"
  /\ IF epIn = "closed"
     THEN UNCHANGED inVars
     ELSE epIn' = "valid" /\ xferIn' = txArg
  /\ txArg' = NULL
  /\ pc' = "rx"
  /\ UNCHANGED <<frameVars, ch, settled, outVars, devVars>>

\* Mutant: the frame refused for the suspend stays in to_host_buf.
ToHostKeep ==
  /\ pc = "sth_drop"
  /\ txArg' = NULL
  /\ pc' = "rx"
  /\ UNCHANGED <<frameVars, ch, settled, inVars, outVars, devVars>>

\* USBD_GS_CAN_SendFrame returned USBD_BUSY: the frame is dropped.
ToHostDrop ==
  /\ pc = "sth_drop"
  /\ pool' = pool \cup ({toHostBuf} \ {NULL})
  /\ toHostBuf' = NULL
  /\ txArg' = NULL
  /\ pc' = "rx"
  /\ UNCHANGED <<toHost, fromHost, rxBuf, held, chan, ch, settled,
                 inVars, outVars, devVars>>

\* CAN_ReceiveFrame: nothing pending, or no frame in the pool.
ReceiveIdle ==
  /\ pc = "rx"
  /\ pc' = "err"
  /\ UNCHANGED <<frameVars, ch, txArg, settled, inVars, outVars, devVars>>

\* The stages "rx" and "err" get a frame of the pool (gs_host_frame_object_
\* get_locked) and write the channel number in it.
GetFrame(here, there) ==
  /\ pc = here /\ CanTraffic /\ ch \in started
  /\ \E f \in pool :
       /\ held' = f
       /\ pool' = pool \ {f}
       /\ chan' = [chan EXCEPT ![f] = ch]
  /\ pc' = there
  /\ UNCHANGED <<toHost, fromHost, rxBuf, toHostBuf, ch, txArg, settled,
                 inVars, outVars, devVars>>

\* CAN_ReceiveFrame: a frame is pending.
ReceiveGet == GetFrame("rx", "rx_put")

\* CAN_ReceiveFrame: can_receive delivered (ok) or failed.
ReceivePut(ok) ==
  /\ pc = "rx_put"
  /\ toHost' = IF ok THEN Append(toHost, held) ELSE toHost
  /\ pool' = IF ok THEN pool ELSE pool \cup {held}
  /\ held' = NULL
  /\ pc' = "err"
  /\ UNCHANGED <<fromHost, rxBuf, toHostBuf, chan, ch, txArg, settled,
                 inVars, outVars, devVars>>

\* The end of an iteration.
EndOfChannel ==
  /\ NextChannel("rx", "send")
  /\ settled' = (settled \/ ch + 1 = NumChannels)

\* CAN_HandleError: nothing to report, or no frame in the pool.
ErrorIdle ==
  /\ pc = "err"
  /\ EndOfChannel
  /\ UNCHANGED <<frameVars, txArg, inVars, outVars, devVars>>

\* CAN_HandleError: a state change, a bus error or a bus-off recovery.
ErrorGet == GetFrame("err", "err_put")

\* CAN_HandleError: the error frame is reported, or (a bus error that turns out
\* not to be one) it goes back.
ErrorPut(handled) ==
  /\ pc = "err_put"
  /\ toHost' = IF handled THEN Append(toHost, held) ELSE toHost
  /\ pool' = IF handled THEN pool ELSE pool \cup {held}
  /\ held' = NULL
  /\ EndOfChannel
  /\ UNCHANGED <<fromHost, rxBuf, toHostBuf, chan, txArg, inVars, outVars, devVars>>

-----------------------------------------------------------------------------
(* The USB interrupt.  A failed assertion stops the core. *)

Running == pc # "halted"

\* The controller acknowledges an OUT packet.  A double-buffered endpoint stays
\* VALID, but is blocked until the handler frees the buffer; the other kind
\* disables itself.
HostSends ==
  /\ Running /\ configured /\ ~suspended
  /\ epOut = "valid" /\ rxHw = 0
  /\ rxHw' = 1
  /\ epOut' = IF DoubleBuffered THEN "valid" ELSE "nak"
  /\ UNCHANGED <<frameVars, mainVars, inVars, xferOut, devVars>>

\* USBD_GS_CAN_DataOut, a valid frame for channel c.  The HAL has copied the
\* packet to the frame the endpoint was armed with; the handler looks at
\* from_host_buf[0].  If the buffers cannot all be filled, a double-buffered
\* endpoint is armed again and set to NAK: a packet accepted until then (after
\* the HAL freed the packet buffer) waits for the next interrupt.
DataOut(c) ==
  LET written == [f \in Frames |-> IF f = xferOut THEN c ELSE chan[f]]
      to      == written[Head(rxBuf)]
      ready   == PrefillReady(Tail(rxBuf))
      racing  == DoubleBuffered /\ ~ready /\ (epOut = "valid" \/ TokenInWindow)
  IN /\ Running /\ rxHw = 1 /\ rxBuf # <<>>
     /\ chan' = written
     /\ fromHost' = [fromHost EXCEPT ![to] = Append(@, Head(rxBuf))]
     /\ Prefill(Tail(rxBuf))
     /\ CASE ready                    -> PrepareReceive(rxBuf')
          [] ~ready /\ DoubleBuffered -> xferOut' = FirstRxBuf(rxBuf') /\ epOut' = "nak"
          [] OTHER                    -> UNCHANGED <<xferOut, epOut>>
     /\ rxHw' \in IF racing THEN {0, 1} ELSE {0}
     /\ UNCHANGED <<toHost, toHostBuf, held, mainVars, inVars, devVars>>

\* USBD_GS_CAN_DataOut, out_prepare_receive: a short frame or one for a channel
\* that does not exist is overwritten by the next.
DataOutInvalid ==
  /\ Running /\ rxHw = 1 /\ rxBuf # <<>>
  /\ rxHw' = 0
  /\ IF Len(rxBuf) = RxBufs
     THEN PrepareReceive(rxBuf)
     ELSE UNCHANGED <<epOut, xferOut>>
  /\ UNCHANGED <<frameVars, mainVars, inVars, devVars>>

\* USBD_GS_CAN_DataOut: assert_basic(hcan->from_host_buf[0]) fails.
DataOutAssert ==
  /\ Running /\ rxHw = 1 /\ rxBuf = <<>>
  /\ pc' = "halted"
  /\ UNCHANGED <<frameVars, ch, txArg, settled, inVars, outVars, devVars>>

\* Mutant: to_host_buf is not reset.
DataInUncleared ==
  /\ Running /\ configured /\ ~suspended
  /\ epIn = "valid"
  /\ pool' = pool \cup {toHostBuf}
  /\ epIn' = "nak" /\ xferIn' = NULL
  /\ UNCHANGED <<toHost, fromHost, rxBuf, toHostBuf, held, chan, mainVars,
                 outVars, devVars>>

\* USBD_GS_CAN_DataIn: the host has taken the frame.
DataIn ==
  /\ Running /\ configured /\ ~suspended
  /\ epIn = "valid"
  /\ pool' = pool \cup {toHostBuf}
  /\ toHostBuf' = NULL
  /\ epIn' = "nak" /\ xferIn' = NULL
  /\ UNCHANGED <<toHost, fromHost, rxBuf, held, chan, mainVars, outVars, devVars>>

\* SET_CONFIGURATION of an addressed device: USBD_GS_CAN_Start.  That takes
\* the host several transfers after a reset, the main loop goes round meanwhile.
SetConfig ==
  /\ Running /\ ~configured /\ ~suspended
  /\ settled \/ EagerHost
  /\ configured' = TRUE
  /\ epIn' = "nak" /\ xferIn' = NULL
  /\ epOut' = "valid" /\ xferOut' = FirstRxBuf(rxBuf)
  /\ UNCHANGED <<frameVars, mainVars, rxHw, suspended, started, running>>

\* Mutant: a bus reset that leaves the IN endpoint open.
UnconfigureOpen ==
  /\ Running /\ Reenumerates
  /\ configured \/ suspended
  /\ pool' = pool \cup ({toHostBuf} \ {NULL})
  /\ toHostBuf' = NULL /\ suspended' = FALSE
  /\ configured' = FALSE /\ settled' = FALSE
  /\ UNCHANGED <<toHost, fromHost, rxBuf, held, chan, pc, ch, txArg, started, running,
                 inVars, outVars>>

\* USBD_LL_Reset (a bus reset, of a suspended bus too) and, with USBD_ClrClass
\* Config, SET_CONFIGURATION 0: both end in DeInit.  No channel is disabled.
Unconfigure ==
  /\ Running /\ Reenumerates
  /\ configured \/ suspended
  /\ DeInit
  /\ configured' = FALSE
  /\ settled' = FALSE
  /\ UNCHANGED <<toHost, fromHost, rxBuf, held, chan, pc, ch, txArg, started, running>>

\* HAL_PCD_SuspendCallback: can_disable every channel, then set the flag.  The
\* interrupt handler serves received packets before it looks at SUSP.
Suspend ==
  /\ Running /\ Suspends /\ ~suspended /\ rxHw = 0
  /\ pool' = pool \cup Range(toHost) \cup UNION {Range(fromHost[c]) : c \in Chans}
  /\ toHost' = <<>>
  /\ fromHost' = [c \in Chans |-> <<>>]
  /\ suspended' = TRUE /\ running' = {}
  /\ UNCHANGED <<rxBuf, toHostBuf, held, chan, mainVars, inVars, outVars,
                 configured, started>>

\* HAL_PCD_ResumeCallback.
Resume ==
  /\ Running /\ suspended
  /\ suspended' = FALSE
  /\ UNCHANGED <<frameVars, mainVars, inVars, outVars,
                 configured, started, running>>

\* GS_USB_BREQ_MODE with GS_CAN_MODE_RESET: can_disable of channel c.
ModeReset(c) ==
  LET purged == {f \in Range(toHost) : chan[f] = c}
  IN /\ Running /\ configured /\ ~suspended
     /\ pool' = pool \cup Range(fromHost[c]) \cup purged
     /\ fromHost' = [fromHost EXCEPT ![c] = <<>>]
     /\ toHost' \in InOrder(toHost, Range(toHost) \ purged)
     /\ running' = running \ {c}
     /\ UNCHANGED <<rxBuf, toHostBuf, held, chan, mainVars, inVars, outVars,
                    configured, suspended, started>>

\* GS_USB_BREQ_MODE with GS_CAN_MODE_START; it touches no frame.
ModeStart(c) ==
  /\ Running /\ configured /\ ~suspended
  /\ started' = started \cup {c} /\ running' = running \cup {c}
  /\ UNCHANGED <<frameVars, mainVars, inVars, outVars, configured, suspended>>

-----------------------------------------------------------------------------
Main ==
  \/ Boot
  \/ SendIdle \/ SendTake \/ SendEcho \/ SendRetry
  \/ ReceiveFromHost
  \/ ToHostIdle \/ ToHostTake \/ ToHostArg \/ ToHostXmit \/ ToHostDrop
  \/ ReceiveIdle \/ ReceiveGet \/ \E ok \in BOOLEAN : ReceivePut(ok)
  \/ ErrorIdle \/ ErrorGet \/ \E ok \in BOOLEAN : ErrorPut(ok)

Interrupt ==
  \/ HostSends
  \/ \E c \in Chans : DataOut(c)
  \/ DataOutInvalid \/ DataOutAssert
  \/ DataIn
  \/ SetConfig \/ Unconfigure
  \/ Suspend \/ Resume
  \/ \E c \in Chans : ModeReset(c)
  \/ \E c \in Chans : ModeStart(c)

Next == Main \/ Interrupt

Spec == Init /\ [][Next]_vars

-----------------------------------------------------------------------------
(* Properties. *)

MainSteps == {"boot", "send", "send_put", "rfh", "sth", "sth_arg", "sth_xmit",
              "sth_drop", "rx", "rx_put", "err", "err_put", "halted"}

\* Every variable has its type; at most RxBufs receive buffers are kept, and a
\* closed endpoint has no transfer.
TypeOK ==
  /\ pool \subseteq Frames
  /\ toHost \in Seq(Frames)
  /\ fromHost \in [Chans -> Seq(Frames)]
  /\ rxBuf \in Seq(Frames) /\ Len(rxBuf) <= RxBufs
  /\ toHostBuf \in Frames \cup {NULL}
  /\ held \in Frames \cup {NULL}
  /\ chan \in [Frames -> Chans]
  /\ pc \in MainSteps /\ ch \in Chans
  /\ txArg \in Frames \cup {NULL}
  /\ settled \in BOOLEAN
  /\ epIn \in {"closed", "nak", "valid"} /\ xferIn \in Frames \cup {NULL}
  /\ epOut \in {"closed", "nak", "valid"} /\ xferOut \in Frames \cup {NULL}
  /\ rxHw \in {0, 1}
  /\ configured \in BOOLEAN /\ suspended \in BOOLEAN
  /\ started \subseteq Chans /\ running \subseteq started

(* The places a frame object can be in. *)
Pool     == <<"pool", 0>>
RxPlace  == <<"rx", 0>>
Queue(c) == <<"queue", c>>
Work(c)  == <<"work", c>>
Outbox   == <<"outbox", 0>>
TxPlace  == <<"tx", 0>>

Places == {Pool, RxPlace, Outbox, TxPlace}
            \cup {Queue(c) : c \in Chans} \cup {Work(c) : c \in Chans}

\* Frame f is in place p.
IsIn(f, p) ==
  \/ p = Pool /\ f \in pool
  \/ p = RxPlace /\ f \in Range(rxBuf)
  \/ p = Outbox /\ f \in Range(toHost)
  \/ p = TxPlace /\ f = toHostBuf
  \/ \E c \in Chans : p = Queue(c) /\ f \in Range(fromHost[c])
  \/ p = Work(ch) /\ f = held

\* No frame is lost and none is in two places: the lists are linked through the
\* frames themselves, so a frame added twice would destroy both lists.
Conservation ==
  /\ \A f \in Frames : \E p \in Places :
       IsIn(f, p) /\ \A q \in Places : IsIn(f, q) => q = p
  /\ IsInjective(toHost) /\ IsInjective(rxBuf)
  /\ \A c \in Chans : IsInjective(fromHost[c])

(* The inductive invariant behind TypeOK, Conservation and InTransferOwned.  *)

\* Conservation, owner by owner.
Exclusive ==
  \A f \in Frames :
    /\ \/ f \in pool \/ f \in Range(rxBuf) \/ f \in Range(toHost)
       \/ f = toHostBuf \/ f = held \/ \E c \in Chans : f \in Range(fromHost[c])
    /\ f \in pool =>
         f \notin Range(rxBuf) /\ f \notin Range(toHost) /\ f # toHostBuf /\ f # held
    /\ f \in Range(rxBuf) => f \notin Range(toHost) /\ f # toHostBuf /\ f # held
    /\ f \in Range(toHost) => f # toHostBuf /\ f # held
    /\ f = toHostBuf => f # held
    /\ \A c \in Chans : f \in Range(fromHost[c]) =>
         /\ f \notin pool /\ f \notin Range(rxBuf) /\ f \notin Range(toHost)
         /\ f # toHostBuf /\ f # held
         /\ \A d \in Chans : f \in Range(fromHost[d]) => d = c

Unrepeated ==
  /\ IsInjective(toHost) /\ IsInjective(rxBuf)
  /\ \A c \in Chans : IsInjective(fromHost[c])

\* The main loop owns a frame exactly in the steps that put one back.
HeldInHand ==
  /\ pc \in {"send_put", "rx_put", "err_put"} => held # NULL
  /\ held # NULL => pc \in {"send_put", "rx_put", "err_put", "halted"}

\* Unless a reset came in between (and then settled is FALSE until the loop has
\* come round), SendToHost still owns what it took.
InTransferInv ==
  /\ epIn = "closed" <=> ~configured
  /\ epIn = "valid" => /\ xferIn = toHostBuf /\ toHostBuf # NULL
                       /\ pc \notin {"sth_arg", "sth_xmit", "sth_drop"}
  /\ pc = "sth_arg" /\ (configured \/ settled) => toHostBuf # NULL
  /\ pc = "sth_xmit" /\ (configured \/ settled) =>
       txArg = toHostBuf /\ toHostBuf # NULL

IInv == TypeOK /\ HeldInHand /\ Exclusive /\ Unrepeated /\ InTransferInv

\* While the host can still fetch from the IN endpoint, the frame it fetches is
\* to_host_buf, so DataIn (which frees to_host_buf without a test for NULL)
\* frees the frame that was sent and none that is being read.
InTransferOwned == epIn = "valid" => xferIn = toHostBuf /\ toHostBuf # NULL

\* The packet the OUT endpoint will deliver is written into the very buffer that
\* DataOut is going to look at and queue.
OutTransferOwned ==
  (epOut = "valid" \/ rxHw = 1) /\ rxBuf # <<>> => xferOut = Head(rxBuf)

\* DataOut's assertion: whenever a packet can arrive or has arrived there is a
\* receive buffer for it (usbd_gs_can.c:752).
RxBufferReady == epOut = "valid" \/ rxHw = 1 => rxBuf # <<>>

\* The assertion itself: a packet that has arrived finds a receive buffer.
AssertHolds == Running /\ rxHw = 1 => rxBuf # <<>>

\* The IN pipe does not stall: a frame in to_host_buf, once handed over, is with
\* an endpoint that will complete it.
InPipeAlive ==
  toHostBuf # NULL /\ configured /\ pc \notin {"sth_arg", "sth_xmit", "sth_drop"}
    => epIn = "valid"

\* t keeps the order of what it has in common with s, new elements come last.
KeepsOrder(s, t) ==
  \A i, j \in DOMAIN t, l \in DOMAIN s :
    i < j /\ s[l] = t[j] => \E k \in 1 .. l - 1 : s[k] = t[i]

\* What channel c still has to send.
Pending(c) ==
  (IF pc = "send_put" /\ ch = c THEN <<held>> ELSE <<>>) \o fromHost[c]

\* Frames for one channel, and frames for the host, never overtake each other:
\* not by a retry of can_send, not by the purge of another channel.
NoOvertaking ==
  [][/\ KeepsOrder(toHost, toHost')
     /\ \A c \in Chans : KeepsOrder(Pending(c), Pending(c)')]_vars

(* The life cycle of the frames (module FrameLifecycle), implemented: the place *)
(* of a frame is the owner that has it.                                         *)
PlaceOf ==
  [f \in Frames |->
     CASE f \in pool          -> Pool
       [] f \in Range(rxBuf)  -> RxPlace
       [] f \in Range(toHost) -> Outbox
       [] f = toHostBuf       -> TxPlace
       [] f = held            -> Work(ch)
       [] \E c \in Chans : f \in Range(fromHost[c]) ->
            Queue(CHOOSE c \in Chans : f \in Range(fromHost[c]))
       [] OTHER               -> <<"lost", 0>>]

Lifecycle == INSTANCE FrameLifecycle
  WITH Frames <- Frames, Chans <- Chans, RxBufs <- RxBufs, where <- PlaceOf

\* Every step moves every frame along an arrow of its life cycle, or not at all.
ImplementsLifecycle == Lifecycle!Spec

-----------------------------------------------------------------------------
(* Fairness: the main loop runs, pending packets interrupt, the host resumes *)
(* a bus it suspended and fetches what the IN endpoint offers, and the CAN   *)
(* bus is such that the controller of a running channel takes a frame it is  *)
(* offered again and again.  Of a channel that does not run nothing is       *)
(* assumed: an M_CAN then takes no frame, a bxCAN what its mailboxes hold.   *)
ServeOut == (\E c \in Chans : DataOut(c)) \/ DataOutInvalid \/ DataOutAssert

Fairness ==
  /\ WF_vars(Main)
  /\ WF_vars(ServeOut)
  /\ WF_vars(Resume)
  /\ SF_vars(DataIn)
  /\ \A c \in Chans : SF_vars(SendEcho /\ ch = c /\ c \in running)

FairSpec == Spec /\ Fairness

\* Frame f waits for a channel that does not run: DataOut queues it without a
\* test, and can_send may refuse it for ever.
Stranded(f) == \E c \in Chans \ running : f \in Range(Pending(c))

\* No frame stays in flight: whatever takes it out of the pool, other than the
\* reserve of receive buffers, it comes back, unless it waits for a channel that
\* does not run.
FramesReturn ==
  \A f \in Frames :
    f \notin pool \cup Range(rxBuf) ~> f \in pool \/ Stranded(f)

\* Flow control ends: an OUT endpoint set to NAK for want of buffers is armed
\* again, unless the frames of the pool go to reception again and again
\* (CAN_ReceiveFrame and CAN_HandleError compete for them) or wait for a channel
\* that does not run.
OutResumes ==
  configured /\ epOut = "nak" ~>
    \/ epOut = "valid" \/ ~configured
    \/ pc \in {"rx_put", "err_put"} \/ \E f \in Frames : Stranded(f)
=============================================================================
