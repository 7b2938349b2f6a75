--------------------------- MODULE HostFlowProofs ---------------------------
(***************************************************************************)
(* Flow control of the two bulk endpoints (HostFrames): a receive buffer   *)
(* for every packet, in the right place, and an IN pipe that goes on, for  *)
(* every number of frames, channels and receive buffers and both kinds of  *)
(* OUT endpoint, as long as the host configures the device once, after the *)
(* main loop has come round, and no token meets a double-buffered endpoint *)
(* in the instant DataOut has it VALID before the NAK.  The code ensures   *)
(* neither; what happens otherwise the runs assert_boot and stall_reset    *)
(* show.  A frame is one packet here: for those of two, CAN FD's, see      *)
(* OutEndpoint.  The order of frames, which depends on none of that, comes *)
(* last.                                                                   *)
(***************************************************************************)
EXTENDS HostFramesProofs

USE ConstantsAssumption

\* The environment the theorems are about, and a pool that fills every receive
\* buffer.  A double-buffered endpoint may acknowledge a second packet before
\* DataOut has served the first, so it takes two; one token more, in the instant
\* before the NAK, takes a buffer that is not there.  An OTG endpoint has disabled
\* itself by then.
Steady ==
  /\ ~EagerHost /\ ~Reenumerates
  /\ RxBufs <= Cardinality(Frames)
  /\ DoubleBuffered => RxBufs >= 2 /\ ~TokenInWindow

\* An armed OUT endpoint has all receive buffers; a packet that has arrived has
\* one, the first, and with OTG it has disabled the endpoint.
OutInv ==
  /\ epOut = "valid" => Len(rxBuf) = RxBufs
  /\ rxHw = 1 => rxBuf # <<>>
  /\ epOut = "valid" \/ rxHw = 1 => xferOut = Head(rxBuf)
  /\ ~DoubleBuffered /\ rxHw = 1 => epOut # "valid" /\ Len(rxBuf) = RxBufs

\* Before the host configures the device nothing is under way, and the first
\* iteration of the main loop fills the receive buffers.
IdleInv ==
  ~configured =>
    /\ epOut = "closed" /\ rxHw = 0 /\ started = {}
    /\ toHost = <<>> /\ toHostBuf = NULL
    /\ \A c \in Chans : fromHost[c] = <<>>
    /\ pc \in {"boot", "send", "rfh", "sth", "rx", "err"}
    /\ IF ~settled /\ pc \in {"boot", "send", "rfh"}
       THEN pool = Frames /\ rxBuf = <<>>
       ELSE Len(rxBuf) = RxBufs

FlowInv == OutInv /\ IdleInv /\ InPipeAlive

-----------------------------------------------------------------------------
(* Receive buffers. *)

\* USBD_GS_Prefill_RX_Buffers adds at the end, and reports that every buffer is
\* filled only if it is.
LEMMA PrefillFills ==
  ASSUME NEW buf \in Seq(Frames), Len(buf) <= RxBufs, pool \subseteq Frames,
         Prefill(buf)
  PROVE  /\ rxBuf' \in Seq(Frames)
         /\ Len(rxBuf') >= Len(buf) /\ Len(rxBuf') <= RxBufs
         /\ buf # <<>> => Head(rxBuf') = Head(buf) /\ rxBuf' # <<>>
         /\ RxBufs - Len(buf) <= Cardinality(pool) => Len(rxBuf') = RxBufs
<1> DEFINE n == Smaller(RxBufs - Len(buf), Cardinality(pool))
<1>1. Cardinality(pool) \in Nat /\ Len(buf) \in Nat /\ RxBufs \in Nat
  <2>1. IsFiniteSet(pool)
    BY FS_Subset
  <2> QED BY <2>1, FS_CardinalityType, LenProperties
<1>2. /\ n \in Nat /\ n <= RxBufs - Len(buf)
      /\ RxBufs - Len(buf) <= Cardinality(pool) => n = RxBufs - Len(buf)
  BY <1>1 DEF Smaller
<1>3. PICK t \in Injection(1 .. n, pool) : rxBuf' = buf \o t
  BY DEF Prefill
<1> HIDE DEF n
<1>4. t \in Seq(Frames) /\ Len(t) = n
  BY <1>2, <1>3, InjectionIsSeq, SeqMonotonic
<1>5. rxBuf' \in Seq(Frames) /\ Len(rxBuf') = Len(buf) + n
  BY <1>3, <1>4, ConcatRange
<1>6. ASSUME buf # <<>> PROVE Head(rxBuf') = Head(buf) /\ rxBuf' # <<>>
  BY <1>1, <1>3, <1>4, <1>5, <1>6
<1> QED BY <1>1, <1>2, <1>5, <1>6

\* The initial state satisfies the invariant.
LEMMA InitFlow == Init => FlowInv
BY DEF Init, FlowInv, OutInv, IdleInv, InPipeAlive

-----------------------------------------------------------------------------
(* The OUT endpoint. *)

\* USBD_GS_CAN_ReceiveFromHost arms the endpoint with full buffers or leaves it
\* as it is.
LEMMA ReceiveFromHostOut ==
  ASSUME TypeOK, OutInv, ReceiveFromHost
  PROVE  OutInv'
<1>1. /\ rxBuf \in Seq(Frames) /\ Len(rxBuf) <= RxBufs /\ Len(rxBuf) \in Nat
      /\ pool \subseteq Frames /\ RxBufs \in Nat
  BY LenProperties DEF TypeOK
<1>2. Prefill(rxBuf) /\ rxHw' = rxHw
  BY DEF ReceiveFromHost
<1>3. /\ rxBuf' \in Seq(Frames)
      /\ Len(rxBuf') >= Len(rxBuf) /\ Len(rxBuf') <= RxBufs
      /\ rxBuf # <<>> => Head(rxBuf') = Head(rxBuf) /\ rxBuf' # <<>>
      /\ RxBufs - Len(rxBuf) <= Cardinality(pool) => Len(rxBuf') = RxBufs
  BY <1>1, <1>2, PrefillFills
<1>4. /\ Len(rxBuf') \in Nat
      /\ Len(rxBuf) = RxBufs => Len(rxBuf') = RxBufs
      /\ Len(rxBuf) = RxBufs => rxBuf # <<>>
  BY <1>1, <1>3, LenProperties
<1>5. CASE PrefillReady(rxBuf)
  <2>1. Len(rxBuf') = RxBufs /\ rxBuf' # <<>>
    BY <1>1, <1>3, <1>5 DEF PrefillReady
  <2>2. /\ xferOut' = Head(rxBuf')
        /\ epOut' = IF epOut = "closed" THEN "closed" ELSE "valid"
    BY <1>5, <2>1 DEF ReceiveFromHost, PrepareReceive, FirstRxBuf
  <2>3. ~DoubleBuffered => rxHw # 1
    BY <1>1, <1>5 DEF PrefillReady, OutInv
  <2> QED BY <1>2, <2>1, <2>2, <2>3 DEF OutInv
<1>6. CASE ~PrefillReady(rxBuf)
  <2>1. UNCHANGED <<epOut, xferOut>>
    BY <1>6 DEF ReceiveFromHost
  <2> QED BY <1>2, <1>3, <1>4, <2>1 DEF OutInv
<1> QED BY <1>5, <1>6

\* DataOut passes on the first buffer and arms the endpoint with full buffers; if
\* it cannot, a packet that a double-buffered endpoint accepts in the meantime
\* has the second buffer.
LEMMA DataOutOut ==
  ASSUME Steady, TypeOK, OutInv, NEW c \in Chans, DataOut(c)
  PROVE  OutInv'
<1> DEFINE rest == Tail(rxBuf)
<1>1. /\ rxBuf \in Seq(Frames) /\ rxBuf # <<>> /\ Len(rxBuf) <= RxBufs
      /\ Len(rxBuf) \in Nat /\ pool \subseteq Frames /\ RxBufs \in Nat
  BY LenProperties DEF DataOut, TypeOK
<1>2. rest \in Seq(Frames) /\ Len(rest) = Len(rxBuf) - 1
  BY <1>1, HeadTailProperties
<1>3. /\ Prefill(rest)
      /\ PrefillReady(rest) => PrepareReceive(rxBuf') /\ rxHw' = 0
      /\ ~PrefillReady(rest) /\ DoubleBuffered =>
           /\ xferOut' = FirstRxBuf(rxBuf') /\ epOut' = "nak"
           /\ rxHw' = 0 \/ (rxHw' = 1 /\ epOut = "valid")
      /\ ~PrefillReady(rest) /\ ~DoubleBuffered =>
           UNCHANGED <<xferOut, epOut>> /\ rxHw' = 0
  <2> DEFINE racing == DoubleBuffered /\ ~PrefillReady(rest) /\ (epOut = "valid" \/ TokenInWindow)
  <2>1. Prefill(rest) /\ (rxHw' \in IF racing THEN {0, 1} ELSE {0})
    BY DEF DataOut
  <2>2. IF PrefillReady(rest) THEN PrepareReceive(rxBuf')
        ELSE IF DoubleBuffered
             THEN xferOut' = FirstRxBuf(rxBuf') /\ epOut' = "nak"
             ELSE UNCHANGED <<xferOut, epOut>>
    BY DEF DataOut
  <2>3. DoubleBuffered => ~TokenInWindow
    BY DEF Steady
  <2> HIDE DEF rest
  <2> QED BY <2>1, <2>2, <2>3
<1>8. rxHw = 1
  BY DEF DataOut
<1> HIDE DEF rest
<1>4. /\ rxBuf' \in Seq(Frames)
      /\ Len(rxBuf') >= Len(rest) /\ Len(rxBuf') <= RxBufs
      /\ rest # <<>> => Head(rxBuf') = Head(rest) /\ rxBuf' # <<>>
      /\ RxBufs - Len(rest) <= Cardinality(pool) => Len(rxBuf') = RxBufs
  BY <1>1, <1>2, <1>3, PrefillFills
<1>5. CASE PrefillReady(rest)
  <2>1. Len(rxBuf') = RxBufs /\ rxBuf' # <<>>
    BY <1>1, <1>4, <1>5 DEF PrefillReady
  <2>2. xferOut' = Head(rxBuf') /\ rxHw' = 0
    BY <1>3, <1>5, <2>1 DEF PrepareReceive, FirstRxBuf
  <2> QED BY <2>1, <2>2 DEF OutInv
<1>6. CASE ~PrefillReady(rest) /\ DoubleBuffered
  <2>1. epOut = "valid" => Len(rxBuf') >= 1
    BY <1>1, <1>2, <1>4, <1>6 DEF OutInv, Steady
  <2>2. epOut = "valid" => rxBuf' # <<>>
    BY <1>4, <2>1, LenProperties
  <2>3. rxBuf' # <<>> => xferOut' = Head(rxBuf')
    BY <1>3, <1>6 DEF FirstRxBuf
  <2> QED BY <1>3, <1>6, <2>2, <2>3 DEF OutInv
<1>7. CASE ~PrefillReady(rest) /\ ~DoubleBuffered
  <2>1. epOut' # "valid" /\ rxHw' = 0
    BY <1>3, <1>7, <1>8 DEF OutInv
  <2> QED BY <2>1 DEF OutInv
<1> QED BY <1>5, <1>6, <1>7

\* Every step keeps the part on the OUT endpoint.
LEMMA OutStep ==
  ASSUME Steady, TypeOK, OutInv, IdleInv, [Next]_vars
  PROVE  OutInv'
<1> USE DEF frameVars, mainVars, inVars, outVars, devVars
<1>1. ASSUME UNCHANGED <<epOut, xferOut, rxHw, rxBuf>>
      PROVE  OutInv'
  BY <1>1 DEF OutInv
<1>2. CASE Main
  <2>1. CASE ReceiveFromHost
    BY <2>1, ReceiveFromHostOut
  <2>2. CASE ~ReceiveFromHost
    BY <1>1, <1>2, <2>2 DEF Main, Boot, SendIdle, SendTake, SendEcho, SendRetry,
       ToHostIdle, ToHostTake, ToHostArg, ToHostXmit, ToHostDrop, ReceiveIdle,
       ReceiveGet, GetFrame, ReceivePut, ErrorIdle, ErrorGet, ErrorPut
  <2> QED BY <2>1, <2>2
<1>3. CASE Interrupt
  <2>1. CASE HostSends
    <3>1. /\ epOut = "valid" /\ rxHw' = 1 /\ UNCHANGED <<xferOut, rxBuf>>
          /\ epOut' = IF DoubleBuffered THEN "valid" ELSE "nak"
      BY <2>1 DEF HostSends
    <3>2. rxBuf # <<>>
      BY <3>1, LenProperties DEF OutInv, TypeOK
    <3> QED BY <3>1, <3>2 DEF OutInv
  <2>2. ASSUME NEW c \in Chans, DataOut(c) PROVE OutInv'
    BY <2>2, DataOutOut
  <2>3. CASE DataOutInvalid
    <3>1. rxHw' = 0 /\ UNCHANGED rxBuf /\ rxBuf # <<>>
      BY <2>3 DEF DataOutInvalid
    <3>2. CASE Len(rxBuf) = RxBufs
      BY <2>3, <3>1, <3>2 DEF DataOutInvalid, PrepareReceive, FirstRxBuf, OutInv
    <3>3. CASE Len(rxBuf) # RxBufs
      BY <2>3, <3>1, <3>3 DEF DataOutInvalid, OutInv
    <3> QED BY <3>2, <3>3
  <2>4. CASE DataOutAssert \/ DataIn \/ Suspend \/ Resume
    BY <1>1, <2>4 DEF DataOutAssert, DataIn, Suspend, Resume
  <2>5. CASE SetConfig
    <3>1. /\ ~configured /\ settled /\ epOut' = "valid"
          /\ xferOut' = FirstRxBuf(rxBuf) /\ UNCHANGED <<rxHw, rxBuf>>
      BY <2>5 DEF SetConfig, Steady
    <3>2. Len(rxBuf) = RxBufs /\ rxHw = 0
      BY <3>1 DEF IdleInv
    <3>3. rxBuf # <<>>
      BY <3>2, LenProperties DEF TypeOK
    <3> QED BY <3>1, <3>2, <3>3 DEF OutInv, FirstRxBuf
  <2>6. ~Unconfigure
    BY DEF Unconfigure, Steady
  <2>7. ASSUME NEW c \in Chans, ModeReset(c) \/ ModeStart(c) PROVE OutInv'
    BY <1>1, <2>7 DEF ModeReset, ModeStart
  <2> QED BY <1>3, <2>1, <2>2, <2>3, <2>4, <2>5, <2>6, <2>7 DEF Interrupt
<1>4. CASE UNCHANGED vars
  BY <1>1, <1>4 DEF vars
<1> QED BY <1>2, <1>3, <1>4 DEF Next

-----------------------------------------------------------------------------
(* Before the configuration, and the IN pipe. *)

\* Every step keeps the part on the device that is not configured.
LEMMA IdleStep ==
  ASSUME Steady, TypeOK, OutInv, IdleInv, [Next]_vars
  PROVE  IdleInv'
<1> USE DEF frameVars, mainVars, inVars, outVars, devVars
<1> SUFFICES ASSUME ~configured' PROVE IdleInv'
  BY DEF IdleInv
<1>1. ~configured
  BY DEF Next, Main, Interrupt, vars, Steady, Boot, SendIdle, SendTake, SendEcho,
     SendRetry, ReceiveFromHost, ToHostIdle, ToHostTake, ToHostArg, ToHostXmit,
     ToHostDrop, ReceiveIdle, ReceiveGet, GetFrame, ReceivePut, ErrorIdle, ErrorGet,
     ErrorPut, HostSends, DataOut, DataOutInvalid, DataOutAssert, DataIn, Unconfigure,
     SetConfig, Suspend, Resume, ModeReset, ModeStart
<1>2. /\ epOut = "closed" /\ rxHw = 0 /\ started = {}
      /\ toHost = <<>> /\ toHostBuf = NULL
      /\ \A c \in Chans : fromHost[c] = <<>>
      /\ pc \in {"boot", "send", "rfh", "sth", "rx", "err"}
      /\ IF ~settled /\ pc \in {"boot", "send", "rfh"}
         THEN pool = Frames /\ rxBuf = <<>>
         ELSE Len(rxBuf) = RxBufs
  BY <1>1 DEF IdleInv
<1>3. CASE Main
  <2>1. CASE ReceiveFromHost
    <3>1. /\ rxBuf \in Seq(Frames) /\ Len(rxBuf) <= RxBufs /\ Len(rxBuf) \in Nat
          /\ pool \subseteq Frames /\ RxBufs \in Nat /\ Cardinality(Frames) \in Nat
      BY FS_CardinalityType, LenProperties DEF TypeOK
    <3>2. Prefill(rxBuf)
      BY <2>1 DEF ReceiveFromHost
    <3>3. /\ Len(rxBuf') >= Len(rxBuf) /\ Len(rxBuf') <= RxBufs
          /\ rxBuf' \in Seq(Frames)
          /\ RxBufs - Len(rxBuf) <= Cardinality(pool) => Len(rxBuf') = RxBufs
      BY <3>1, <3>2, PrefillFills
    <3>4. Len(rxBuf') \in Nat
      BY <3>3, LenProperties
    <3>5. Len(rxBuf') = RxBufs
      <4>1. CASE Len(rxBuf) = RxBufs
        BY <3>1, <3>3, <3>4, <4>1
      <4>2. CASE pool = Frames /\ rxBuf = <<>>
        BY <3>1, <3>3, <4>2 DEF Steady
      <4> QED BY <1>2, <4>1, <4>2
    <3>6. epOut' = "closed" /\ rxHw' = 0
      BY <1>2, <2>1 DEF ReceiveFromHost, PrepareReceive
    <3>7. /\ pc' = "sth" /\ UNCHANGED <<started, toHost, toHostBuf, fromHost>>
      BY <2>1 DEF ReceiveFromHost
    <3> QED BY <1>2, <3>5, <3>6, <3>7 DEF IdleInv
  <2>2. CASE Boot \/ ToHostIdle \/ ReceiveIdle
    BY <1>2, <2>2 DEF Boot, ToHostIdle, ReceiveIdle, IdleInv
  <2>3. CASE SendIdle
    BY <1>2, <2>3 DEF SendIdle, NextChannel, IdleInv
  <2>4. CASE ErrorIdle
    <3>1. pc = "err" /\ UNCHANGED <<frameVars, outVars, started>>
      BY <2>4 DEF ErrorIdle
    <3>2. /\ NextChannel("rx", "send")
          /\ settled' = (settled \/ ch + 1 = NumChannels)
      BY <2>4 DEF ErrorIdle, EndOfChannel
    <3>3. CASE ch + 1 < NumChannels
      <4>1. pc' = "rx"
        BY <3>2, <3>3 DEF NextChannel
      <4> QED BY <1>2, <3>1, <4>1 DEF IdleInv
    <3>4. CASE ~(ch + 1 < NumChannels)
      <4>1. ch + 1 = NumChannels
        BY <3>4 DEF TypeOK, Chans
      <4>2. settled' /\ pc' = "send"
        BY <3>2, <3>4, <4>1 DEF NextChannel
      <4> QED BY <1>2, <3>1, <4>2 DEF IdleInv
    <3> QED BY <3>3, <3>4
  <2>5. ~(SendTake \/ SendEcho \/ SendRetry \/ ToHostTake \/ ToHostArg \/ ToHostXmit
           \/ ToHostDrop \/ ReceiveGet \/ ErrorGet)
    BY <1>2 DEF SendTake, SendEcho, SendRetry, ToHostTake, ToHostArg, ToHostXmit,
       ToHostDrop, ReceiveGet, ErrorGet, GetFrame, TypeOK
  <2>6. \A ok \in BOOLEAN : ~ReceivePut(ok) /\ ~ErrorPut(ok)
    BY <1>2 DEF ReceivePut, ErrorPut
  <2> QED BY <1>3, <2>1, <2>2, <2>3, <2>4, <2>5, <2>6 DEF Main
<1>4. CASE Interrupt
  <2>1. ~(HostSends \/ DataOutInvalid \/ DataOutAssert \/ DataIn \/ SetConfig
           \/ Unconfigure)
    BY <1>1, <1>2 DEF HostSends, DataOutInvalid, DataOutAssert, DataIn, SetConfig,
       Unconfigure, Steady
  <2>2. \A c \in Chans : ~DataOut(c) /\ ~ModeReset(c) /\ ~ModeStart(c)
    BY <1>1, <1>2 DEF DataOut, ModeReset, ModeStart
  <2>3. CASE Suspend
    <3>1. /\ pool' = pool \cup Range(toHost) \cup UNION {Range(fromHost[c]) : c \in Chans}
          /\ toHost' = <<>> /\ \A c \in Chans : fromHost'[c] = <<>>
          /\ UNCHANGED <<rxBuf, toHostBuf, pc, settled, epOut, rxHw, started>>
      BY <2>3 DEF Suspend
    <3>2. pool' = pool
      <4>1. Range(toHost) = {} /\ \A c \in Chans : Range(fromHost[c]) = {}
        BY <1>2, EmptyRange
      <4> QED BY <3>1, <4>1
    <3> QED BY <1>2, <3>1, <3>2 DEF IdleInv
  <2>4. CASE Resume
    BY <1>2, <2>4 DEF Resume, IdleInv
  <2> QED BY <1>4, <2>1, <2>2, <2>3, <2>4 DEF Interrupt
<1>5. CASE UNCHANGED vars
  BY <1>2, <1>5 DEF vars, IdleInv
<1> QED BY <1>3, <1>4, <1>5 DEF Next

\* Every step keeps the IN pipe alive.
LEMMA PipeStep ==
  ASSUME Steady, IInv, OutInv, IdleInv, InPipeAlive, [Next]_vars
  PROVE  InPipeAlive'
<1> USE DEF frameVars, mainVars, inVars, outVars, devVars
<1> TypeOK /\ InTransferInv
  BY DEF IInv
<1>1. ASSUME UNCHANGED <<toHostBuf, configured, epIn>>,
             pc \notin {"sth_arg", "sth_xmit", "sth_drop"} \/ pc' = pc
      PROVE  InPipeAlive'
  BY <1>1 DEF InPipeAlive
<1>2. CASE Main
  <2>1. CASE ToHostTake \/ ToHostArg \/ ToHostDrop
    BY <2>1 DEF ToHostTake, ToHostArg, ToHostDrop, InPipeAlive
  <2>2. CASE ToHostXmit
    BY <2>2 DEF ToHostXmit, InPipeAlive, InTransferInv
  <2>3. CASE ~(ToHostTake \/ ToHostArg \/ ToHostDrop \/ ToHostXmit)
    BY <1>1, <1>2, <2>3 DEF Main, Boot, SendIdle, SendTake, SendEcho, SendRetry,
       ReceiveFromHost, ToHostIdle, ReceiveIdle, ReceiveGet, GetFrame, ReceivePut,
       ErrorIdle, ErrorGet, ErrorPut
  <2> QED BY <2>1, <2>2, <2>3
<1>3. CASE Interrupt
  <2>1. CASE HostSends \/ DataOutInvalid \/ Suspend \/ Resume
    BY <1>1, <2>1 DEF HostSends, DataOutInvalid, Suspend, Resume
  <2>2. ~DataOutAssert /\ ~Unconfigure
    BY DEF DataOutAssert, OutInv, Unconfigure, Steady
  <2>3. CASE DataIn
    BY <2>3 DEF DataIn, InPipeAlive
  <2>4. CASE SetConfig
    BY <2>4 DEF SetConfig, IdleInv, InPipeAlive
  <2>5. ASSUME NEW c \in Chans, DataOut(c) \/ ModeReset(c) \/ ModeStart(c)
        PROVE  InPipeAlive'
    BY <1>1, <2>5 DEF DataOut, ModeReset, ModeStart
  <2> QED BY <1>3, <2>1, <2>2, <2>3, <2>4, <2>5 DEF Interrupt
<1>4. CASE UNCHANGED vars
  BY <1>1, <1>4 DEF vars
<1> QED BY <1>2, <1>3, <1>4 DEF Next

-----------------------------------------------------------------------------
(* The theorems. *)

\* FlowInv holds in every reachable state.
LEMMA FlowCorrect == Steady => (Spec => []FlowInv)
<1> SUFFICES ASSUME Steady PROVE Spec => []FlowInv
  OBVIOUS
<1>1. Spec => []IInv
  BY IInvCorrect DEF Steady
<1>2. IInv /\ FlowInv /\ [Next]_vars => FlowInv'
  <2> SUFFICES ASSUME IInv, FlowInv, [Next]_vars PROVE FlowInv'
    OBVIOUS
  <2>1. TypeOK /\ OutInv /\ IdleInv /\ InPipeAlive
    BY DEF IInv, FlowInv
  <2>2. OutInv' /\ IdleInv' /\ InPipeAlive'
    BY <2>1, OutStep, IdleStep, PipeStep
  <2> QED BY <2>2 DEF FlowInv
<1> QED BY <1>1, <1>2, InitFlow, PTL DEF Spec

\* In a steady environment there is a receive buffer whenever a packet can arrive
\* or has arrived: the assertion of DataOut holds.
THEOREM RxBufferReadyCorrect == Steady => (Spec => []RxBufferReady)
<1> SUFFICES ASSUME Steady PROVE Spec => []RxBufferReady
  OBVIOUS
<1>1. IInv /\ FlowInv => RxBufferReady
  <2> SUFFICES ASSUME IInv, FlowInv PROVE RxBufferReady
    OBVIOUS
  <2>1. Len(rxBuf) = RxBufs => rxBuf # <<>>
    OBVIOUS
  <2> QED BY <2>1 DEF FlowInv, OutInv, RxBufferReady
<1> QED BY <1>1, FlowCorrect, IInvCorrect, PTL DEF Steady

\* In a steady environment the packet the endpoint delivers is written into the
\* buffer DataOut looks at.
THEOREM OutTransferOwnedCorrect == Steady => (Spec => []OutTransferOwned)
<1>1. FlowInv => OutTransferOwned
  BY DEF FlowInv, OutInv, OutTransferOwned
<1> QED BY <1>1, FlowCorrect, PTL

\* In a steady environment a frame in to_host_buf, once handed over, is with an
\* endpoint that will complete it: the IN pipe does not stall.
THEOREM InPipeAliveCorrect == Steady => (Spec => []InPipeAlive)
<1>1. FlowInv => InPipeAlive
  BY DEF FlowInv
<1> QED BY <1>1, FlowCorrect, PTL

-----------------------------------------------------------------------------
(* Order.  KeepsOrder(s, t) when the list s becomes t.                       *)

\* A list that stays as it is keeps its order ...
LEMMA SameOrder ==
  ASSUME NEW s \in Seq(Frames), IsInjective(s)
  PROVE  KeepsOrder(s, s)
<1> SUFFICES ASSUME NEW i \in DOMAIN s, NEW j \in DOMAIN s, NEW l \in DOMAIN s,
                    i < j, s[l] = s[j]
             PROVE  \E k \in 1 .. l - 1 : s[k] = s[i]
  BY DEF KeepsOrder
<1>1. l = j
  BY DEF IsInjective
<1>2. DOMAIN s = 1 .. Len(s) /\ Len(s) \in Nat
  OBVIOUS
<1>3. i \in 1 .. l - 1
  BY <1>1, <1>2
<1> QED BY <1>3

\* ... and so does one that grows at its end, ...
LEMMA AppendOrder ==
  ASSUME NEW s \in Seq(Frames), IsInjective(s), NEW e \in Frames, e \notin Range(s)
  PROVE  KeepsOrder(s, Append(s, e))
<1> DEFINE t == Append(s, e)
<1>1. /\ DOMAIN s = 1 .. Len(s) /\ Len(s) \in Nat
      /\ DOMAIN t = 1 .. Len(s) + 1
      /\ \A i \in 1 .. Len(s) : t[i] = s[i]
      /\ t[Len(s) + 1] = e
  OBVIOUS
<1> HIDE DEF t
<1> SUFFICES ASSUME NEW i \in DOMAIN t, NEW j \in DOMAIN t, NEW l \in DOMAIN s,
                    i < j, s[l] = t[j]
             PROVE  \E k \in 1 .. l - 1 : s[k] = t[i]
  BY DEF KeepsOrder, t
<1>2. t[j] # e
  BY DEF Range
<1>3. j \in DOMAIN s /\ i \in DOMAIN s
  BY <1>1, <1>2
<1>4. l = j
  BY <1>1, <1>3 DEF IsInjective
<1>5. i \in 1 .. l - 1 /\ s[i] = t[i]
  BY <1>1, <1>3, <1>4
<1> QED BY <1>5

\* ... loses its first element, ...
LEMMA TailOrder ==
  ASSUME NEW s \in Seq(Frames), IsInjective(s), s # <<>>
  PROVE  KeepsOrder(s, Tail(s))
<1> DEFINE t == Tail(s)
<1>1. /\ DOMAIN s = 1 .. Len(s) /\ Len(s) \in Nat \ {0}
      /\ DOMAIN t = 1 .. Len(s) - 1
      /\ \A i \in 1 .. Len(s) - 1 : t[i] = s[i + 1]
  OBVIOUS
<1> HIDE DEF t
<1> SUFFICES ASSUME NEW i \in DOMAIN t, NEW j \in DOMAIN t, NEW l \in DOMAIN s,
                    i < j, s[l] = t[j]
             PROVE  \E k \in 1 .. l - 1 : s[k] = t[i]
  BY DEF KeepsOrder, t
<1>2. j + 1 \in DOMAIN s /\ s[l] = s[j + 1]
  BY <1>1
<1>3. l = j + 1
  BY <1>2 DEF IsInjective
<1>4. i + 1 \in 1 .. l - 1 /\ s[i + 1] = t[i]
  BY <1>1, <1>3
<1> QED BY <1>4

\* ... or keeps one element at most.
LEMMA ShortOrder ==
  ASSUME NEW s, NEW t \in Seq(Frames), Len(t) <= 1
  PROVE  KeepsOrder(s, t)
<1>1. DOMAIN t = 1 .. Len(t) /\ Len(t) \in Nat
  OBVIOUS
<1>2. \A i, j \in DOMAIN t : ~(i < j)
  BY <1>1
<1> QED BY <1>2 DEF KeepsOrder

\* The purge of a channel leaves the others' frames in order.
LEMMA PurgeOrder ==
  ASSUME NEW s \in Seq(Frames), IsInjective(s), NEW S, NEW t \in InOrder(s, S)
  PROVE  KeepsOrder(s, t)
<1> SUFFICES ASSUME NEW i \in DOMAIN t, NEW j \in DOMAIN t, NEW l \in DOMAIN s,
                    i < j, s[l] = t[j]
             PROVE  \E k \in 1 .. l - 1 : s[k] = t[i]
  BY DEF KeepsOrder
<1>1. PICK k, m \in DOMAIN s : k < m /\ s[k] = t[i] /\ s[m] = t[j]
  BY DEF InOrder
<1>2. m = l
  BY <1>1 DEF IsInjective
<1>3. DOMAIN s = 1 .. Len(s) /\ Len(s) \in Nat
  OBVIOUS
<1>4. k \in 1 .. l - 1
  BY <1>1, <1>2, <1>3
<1> QED BY <1>1, <1>4

\* What a channel has to send is a list of frames without repetition.
LEMMA PendingList ==
  ASSUME IInv, NEW c \in Chans
  PROVE  Pending(c) \in Seq(Frames) /\ IsInjective(Pending(c))
<1>1. fromHost[c] \in Seq(Frames) /\ IsInjective(fromHost[c])
  BY DEF IInv, TypeOK, Unrepeated
<1>2. CASE pc = "send_put" /\ ch = c
  <2>1. held \in Frames /\ held \notin Range(fromHost[c])
    BY <1>2 DEF IInv, TypeOK, HeldInHand, Exclusive
  <2> QED BY <1>1, <1>2, <2>1, ConsRange DEF Pending
<1>3. CASE ~(pc = "send_put" /\ ch = c)
  <2>1. Pending(c) = fromHost[c]
    BY <1>1, <1>3, ConcatEmptySeq DEF Pending
  <2> QED BY <1>1, <2>1
<1> QED BY <1>2, <1>3

\* The list to the host.
LEMMA ToHostOrder ==
  ASSUME IInv, [Next]_vars
  PROVE  KeepsOrder(toHost, toHost')
<1>1. toHost \in Seq(Frames) /\ IsInjective(toHost)
  BY DEF IInv, TypeOK, Unrepeated
<1>2. ASSUME toHost' = toHost PROVE KeepsOrder(toHost, toHost')
  BY <1>1, <1>2, SameOrder
<1>3. ASSUME held # NULL, toHost' = Append(toHost, held)
      PROVE  KeepsOrder(toHost, toHost')
  <2>1. held \in Frames /\ held \notin Range(toHost)
    BY <1>3 DEF IInv, TypeOK, Exclusive
  <2> QED BY <1>1, <1>3, <2>1, AppendOrder
<1>4. CASE SendEcho
  BY <1>3, <1>4 DEF SendEcho, IInv, HeldInHand
<1>5. CASE ToHostTake
  BY <1>1, <1>5, TailOrder DEF ToHostTake
<1>6. ASSUME NEW ok \in BOOLEAN, ReceivePut(ok) PROVE KeepsOrder(toHost, toHost')
  BY <1>2, <1>3, <1>6 DEF ReceivePut, IInv, HeldInHand
<1>7. ASSUME NEW ok \in BOOLEAN, ErrorPut(ok) PROVE KeepsOrder(toHost, toHost')
  BY <1>2, <1>3, <1>7 DEF ErrorPut, IInv, HeldInHand
<1>8. CASE Suspend
  <2>1. toHost' = <<>> /\ <<>> \in Seq(Frames) /\ Len(<<>>) <= 1
    BY <1>8 DEF Suspend
  <2> QED BY <2>1, ShortOrder
<1>9. ASSUME NEW c \in Chans, ModeReset(c) PROVE KeepsOrder(toHost, toHost')
  BY <1>1, <1>9, PurgeOrder DEF ModeReset
<1>10. CASE \/ Boot \/ SendIdle \/ SendTake \/ SendRetry \/ ReceiveFromHost
            \/ ToHostIdle \/ ToHostArg \/ ToHostXmit \/ ToHostDrop
            \/ ReceiveIdle \/ ReceiveGet \/ ErrorIdle \/ ErrorGet
  BY <1>2, <1>10 DEF Boot, SendIdle, SendTake, SendRetry, ReceiveFromHost, ToHostIdle,
     ToHostArg, ToHostXmit, ToHostDrop, ReceiveIdle, ReceiveGet, GetFrame, ErrorIdle,
     ErrorGet, frameVars
<1>11. CASE \/ HostSends \/ DataOutInvalid \/ DataOutAssert \/ DataIn \/ SetConfig
            \/ Unconfigure \/ Resume \/ UNCHANGED vars
  BY <1>2, <1>11 DEF HostSends, DataOutInvalid, DataOutAssert, DataIn, SetConfig,
     Unconfigure, Resume, frameVars, vars
<1>12. ASSUME NEW c \in Chans, DataOut(c) \/ ModeStart(c)
       PROVE  KeepsOrder(toHost, toHost')
  BY <1>2, <1>12 DEF DataOut, ModeStart, frameVars
<1> QED
  BY <1>4, <1>5, <1>6, <1>7, <1>8, <1>9, <1>10, <1>11, <1>12 DEF Next, Main, Interrupt

\* What a channel has to send, the frame in the hand of CAN_SendFrame included.
LEMMA PendingOrder ==
  ASSUME IInv, [Next]_vars, NEW c \in Chans
  PROVE  KeepsOrder(Pending(c), Pending(c)')
<1>1. Pending(c) \in Seq(Frames) /\ IsInjective(Pending(c))
  BY PendingList
<1>2. fromHost \in [Chans -> Seq(Frames)] /\ ch \in Chans
  BY DEF IInv, TypeOK
<1>3. ASSUME Pending(c)' = Pending(c) PROVE KeepsOrder(Pending(c), Pending(c)')
  BY <1>1, <1>3, SameOrder
<1>4. ASSUME fromHost'[c] = fromHost[c], pc # "send_put", pc' # "send_put"
      PROVE  Pending(c)' = Pending(c)
  BY <1>4 DEF Pending
<1>5. ASSUME fromHost'[c] = fromHost[c], UNCHANGED <<pc, ch, held>>
      PROVE  Pending(c)' = Pending(c)
  BY <1>5 DEF Pending
<1>6. CASE SendTake
  <2>1. CASE ch = c
    <3>1. Pending(c) = fromHost[c] /\ fromHost[c] # <<>>
      BY <1>2, <1>6, <2>1 DEF SendTake, Pending
    <3>2. Pending(c)' = <<Head(fromHost[c])>> \o Tail(fromHost[c])
      BY <1>2, <1>6, <2>1 DEF SendTake, Pending
    <3>3. Pending(c)' = Pending(c)
      BY <1>2, <3>1, <3>2
    <3> QED BY <1>3, <3>3
  <2>2. CASE ch # c
    <3>1. Pending(c)' = Pending(c)
      BY <1>2, <1>6, <2>2 DEF SendTake, Pending
    <3> QED BY <1>3, <3>1
  <2> QED BY <2>1, <2>2
<1>7. ASSUME SendEcho \/ SendRetry PROVE pc' # "send_put" /\ pc = "send_put"
  BY <1>7 DEF SendEcho, SendRetry, NextChannel
<1>8. ASSUME pc = "send_put", ch = c
      PROVE  Pending(c) # <<>> /\ Tail(Pending(c)) = fromHost[c]
  BY <1>2, <1>8 DEF Pending
<1>9. CASE SendEcho
  <2>1. Pending(c)' = fromHost[c]
    BY <1>2, <1>7, <1>9 DEF SendEcho, Pending
  <2>2. CASE ch = c
    BY <1>1, <1>7, <1>8, <1>9, <2>1, <2>2, TailOrder
  <2>3. CASE ch # c
    <3>1. Pending(c) = fromHost[c]
      BY <1>2, <2>3 DEF Pending
    <3> QED BY <1>3, <2>1, <3>1
  <2> QED BY <2>2, <2>3
<1>10. CASE SendRetry
  <2>1. Pending(c)' = Pending(c)
    BY <1>2, <1>7, <1>10 DEF SendRetry, Pending
  <2> QED BY <1>3, <2>1
<1>11. ASSUME NEW d \in Chans, DataOut(d) PROVE KeepsOrder(Pending(c), Pending(c)')
  <2> DEFINE first == Head(rxBuf)
             to == [f \in Frames |-> IF f = xferOut THEN d ELSE chan[f]][first]
  <2>1. /\ fromHost' = [fromHost EXCEPT ![to] = Append(@, first)]
        /\ UNCHANGED <<pc, ch, held>>
        /\ rxBuf # <<>>
    BY <1>11 DEF DataOut, mainVars
  <2> HIDE DEF to
  <2>2. CASE to = c
    <3>1. first \in Frames /\ first \in Range(rxBuf)
      BY <2>1, TailRange DEF IInv, TypeOK, Unrepeated
    <3>2. first \notin Range(fromHost[c]) /\ first # held
      BY <3>1 DEF IInv, Exclusive
    <3>3. first \notin Range(Pending(c))
      <4>1. CASE pc = "send_put" /\ ch = c
        <5>1. held \in Frames
          BY <4>1 DEF IInv, TypeOK, HeldInHand
        <5>2. Range(Pending(c)) = {held} \cup Range(fromHost[c])
          BY <1>2, <4>1, <5>1, ConsRange DEF Pending
        <5> QED BY <3>2, <5>2
      <4>2. CASE ~(pc = "send_put" /\ ch = c)
        <5>1. Pending(c) = fromHost[c]
          BY <1>2, <4>2 DEF Pending
        <5> QED BY <3>2, <5>1
      <4> QED BY <4>1, <4>2
    <3>4. fromHost'[c] = Append(fromHost[c], first)
      BY <1>2, <2>1, <2>2
    <3>5. Pending(c)' = Append(Pending(c), first)
      <4>1. CASE pc = "send_put" /\ ch = c
        <5>1. held \in Frames
          BY <4>1 DEF IInv, TypeOK, HeldInHand
        <5>2. <<held>> \o Append(fromHost[c], first) = Append(<<held>> \o fromHost[c], first)
          BY <1>2, <3>1, <5>1
        <5> QED BY <2>1, <3>4, <4>1, <5>2 DEF Pending
      <4>2. CASE ~(pc = "send_put" /\ ch = c)
        <5>1. <<>> \o Append(fromHost[c], first) = Append(<<>> \o fromHost[c], first)
          BY <1>2, <3>1
        <5> QED BY <2>1, <3>4, <4>2, <5>1 DEF Pending
      <4> QED BY <4>1, <4>2
    <3> QED BY <1>1, <3>1, <3>3, <3>5, AppendOrder
  <2>3. CASE to # c
    <3>1. fromHost'[c] = fromHost[c]
      BY <1>2, <2>1, <2>3
    <3> QED BY <1>3, <1>5, <2>1, <3>1
  <2> QED BY <2>2, <2>3
<1>12. ASSUME fromHost'[c] = <<>>, held' = held, held \in Frames \cup {NULL}, UNCHANGED pc, UNCHANGED ch
       PROVE  KeepsOrder(Pending(c), Pending(c)')
  <2>1. CASE pc = "send_put" /\ ch = c
    <3>1. held \in Frames
      BY <2>1, <1>12 DEF IInv, HeldInHand
    <3>2. Pending(c)' = <<held>> \o <<>>
      BY <1>12, <2>1 DEF Pending
    <3>3. Pending(c)' \in Seq(Frames) /\ Len(Pending(c)') <= 1
      BY <3>1, <3>2
    <3> QED BY <3>3, ShortOrder
  <2>2. CASE ~(pc = "send_put" /\ ch = c)
    <3>1. Pending(c)' = <<>> \o <<>>
      BY <1>12, <2>2 DEF Pending
    <3>2. Pending(c)' \in Seq(Frames) /\ Len(Pending(c)') <= 1
      BY <3>1
    <3> QED BY <3>2, ShortOrder
  <2> QED BY <2>1, <2>2
<1>13. held \in Frames \cup {NULL}
  BY DEF IInv, TypeOK
<1>14. CASE Suspend
  BY <1>12, <1>13, <1>14 DEF Suspend, mainVars
<1>15. ASSUME NEW d \in Chans, ModeReset(d) PROVE KeepsOrder(Pending(c), Pending(c)')
  <2>1. CASE d = c
    BY <1>2, <1>12, <1>13, <1>15, <2>1 DEF ModeReset, mainVars
  <2>2. CASE d # c
    BY <1>2, <1>3, <1>5, <1>15, <2>2 DEF ModeReset, mainVars
  <2> QED BY <2>1, <2>2
<1>16. CASE DataOutAssert
  <2>1. Pending(c)' = fromHost[c]
    BY <1>2, <1>16 DEF DataOutAssert, Pending, frameVars
  <2>2. CASE pc = "send_put" /\ ch = c
    BY <1>1, <1>8, <2>1, <2>2, TailOrder
  <2>3. CASE ~(pc = "send_put" /\ ch = c)
    <3>1. Pending(c) = fromHost[c]
      BY <1>2, <2>3 DEF Pending
    <3> QED BY <1>3, <2>1, <3>1
  <2> QED BY <2>2, <2>3
<1>17. CASE \/ Boot \/ SendIdle \/ ReceiveFromHost
            \/ ToHostIdle \/ ToHostTake \/ ToHostArg \/ ToHostXmit \/ ToHostDrop
            \/ ReceiveIdle \/ ReceiveGet \/ ErrorIdle \/ ErrorGet
            \/ \E ok \in BOOLEAN : ReceivePut(ok) \/ ErrorPut(ok)
  BY <1>3, <1>4, <1>17 DEF Boot, SendIdle, ReceiveFromHost, ToHostIdle, ToHostTake,
     ToHostArg, ToHostXmit, ToHostDrop, ReceiveIdle, ReceiveGet, GetFrame, ErrorIdle,
     ErrorGet, ReceivePut, ErrorPut, EndOfChannel, NextChannel, frameVars
<1>18. CASE \/ HostSends \/ DataOutInvalid \/ DataIn \/ SetConfig
            \/ Unconfigure \/ Resume \/ UNCHANGED vars
  BY <1>3, <1>5, <1>18 DEF HostSends, DataOutInvalid, DataIn, SetConfig,
     Unconfigure, DeInit, Resume, frameVars, mainVars, vars
<1>19. ASSUME NEW d \in Chans, ModeStart(d) PROVE KeepsOrder(Pending(c), Pending(c)')
  BY <1>3, <1>5, <1>19 DEF ModeStart, frameVars, mainVars
<1> QED
  BY <1>6, <1>9, <1>10, <1>11, <1>14, <1>15, <1>16, <1>17, <1>18, <1>19
  DEF Next, Main, Interrupt

\* Frames for one channel and frames for the host never overtake each other, not
\* by a retry of can_send, not by the purge of another channel.
THEOREM NoOvertakingCorrect == ~EagerHost => (Spec => NoOvertaking)
<1> SUFFICES ASSUME ~EagerHost PROVE Spec => NoOvertaking
  OBVIOUS
<1> DEFINE Kept == /\ KeepsOrder(toHost, toHost')
                   /\ \A c \in Chans : KeepsOrder(Pending(c), Pending(c)')
<1>1. Spec => []IInv
  BY IInvCorrect
<1>2. IInv /\ [Next]_vars => [Kept]_vars
  <2> SUFFICES ASSUME IInv, [Next]_vars PROVE Kept
    OBVIOUS
  <2> QED BY ToHostOrder, PendingOrder
<1> QED BY <1>1, <1>2, PTL DEF Spec, NoOvertaking
=============================================================================
