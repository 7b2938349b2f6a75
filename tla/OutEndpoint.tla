---------------------------- MODULE OutEndpoint ----------------------------
(***************************************************************************)
(* The double-buffered bulk OUT endpoint of the STM32F0 and STM32G0: the   *)
(* packet memory and the two toggle bits that the peripheral and the HAL   *)
(* pass it to and fro with, transfers of several packets (a CAN FD frame   *)
(* takes two), and the flow control of USBD_GS_CAN_DataOut.                *)
(*                                                                         *)
(* Packets come in at any moment, also while the handler runs.  A handler  *)
(* step ends with an access to the endpoint register or the packet memory. *)
(***************************************************************************)
EXTENDS Naturals, Sequences, SequencesExt

VARIABLES
  fd,         \* the board has CAN FD
  stat,       \* STAT_RX: "valid" or "nak"
  dtog,       \* DTOG_RX: the packet buffer the peripheral fills next
  swBuf,      \* DTOG_TX: the one the software has; it frees it by toggling the bit
  ctr,        \* CTR_RX: a packet has come in
  begun,      \* a packet has come in since the endpoint was opened
  memory,     \* the packets in the two packet buffers
  isr,        \* PCD_EP_ISR_Handler: "main" (it does not run), "receive", "copy",
              \* "more", "dataOut", "halted" (assert_basic failed)
  snapshot,   \* wEPVal: its two toggle bits
  transfer,   \* the packets copied to the receive buffer since PrepareReceive
  bufs,       \* how many of from_host_buf are not NULL
  sending,    \* the packet the host sends next
  due,        \* history: the frame DataOut has to be given next
  starved     \* history: DataOut has left the reserve incomplete

registerVars == <<stat, dtog, swBuf, ctr>>
hardwareVars == <<begun, memory>>
historyVars  == <<due, starved>>
vars == <<fd, registerVars, hardwareVars, isr, snapshot, transfer, bufs, sending, historyVars>>

\* USBD_GS_CAN_RX_BUFFER_COUNT.
RxBufs == 2

\* Frames have numbers modulo 4; three at most are under way.
Following(n) == (n + 1) % 4

\* A bound: packets in a transfer.
MaxTransfer == 3

Nothing == [frame |-> 0, part |-> 0, last |-> TRUE]

\* The endpoint is configured and the main loop has filled the reserve.
Init ==
  /\ fd \in BOOLEAN
  /\ stat = "valid" /\ dtog = 0 /\ swBuf = 0 /\ ctr = FALSE
  /\ begun = FALSE /\ memory = [b \in {0, 1} |-> Nothing]
  /\ isr = "main" /\ snapshot = <<0, 0>> /\ transfer = <<>>
  /\ bufs = RxBufs
  /\ sending = [frame |-> 0, part |-> 1] /\ due = 0 /\ starved = FALSE

-----------------------------------------------------------------------------
(* The peripheral and the host. *)

\* Peripheral and software claim the same packet buffer: OUT tokens get a NAK
\* although the endpoint is valid.  Before the first packet neither has one.
Blocked == begun /\ dtog = swBuf

\* A packet comes in and is acknowledged.  It takes the host longer to send one
\* than the core to clear CTR_RX of the last.
HwReceive ==
  /\ stat = "valid" /\ ~Blocked /\ ~ctr /\ Len(transfer) < MaxTransfer
  /\ \E last \in (IF fd /\ sending.part = 1 THEN BOOLEAN ELSE {TRUE}) :
       /\ memory' = [memory EXCEPT ![dtog] = [frame |-> sending.frame, part |-> sending.part, last |-> last]]
       /\ sending' = IF last THEN [frame |-> Following(sending.frame), part |-> 1] ELSE [sending EXCEPT !.part = 2]
  /\ dtog' = 1 - dtog /\ ctr' = TRUE /\ begun' = TRUE
  /\ UNCHANGED <<fd, stat, swBuf, isr, snapshot, transfer, bufs, historyVars>>

-----------------------------------------------------------------------------
(* PCD_EP_ISR_Handler. *)

\* The register is read and CTR_RX cleared.
Serve ==
  /\ isr = "main" /\ ctr
  /\ snapshot' = <<dtog, swBuf>> /\ ctr' = FALSE
  /\ isr' = "receive"
  /\ UNCHANGED <<fd, stat, dtog, swBuf, hardwareVars, transfer, bufs, sending, historyVars>>

\* Mutant: buffer 1 is freed under the condition for buffer 0.
DbReceiveSame ==
  /\ isr = "receive"
  /\ swBuf' = IF snapshot[2] = 1 THEN 1 - swBuf ELSE swBuf
  /\ isr' = "copy"
  /\ UNCHANGED <<fd, stat, dtog, ctr, hardwareVars, snapshot, transfer, bufs, sending, historyVars>>

\* HAL_PCD_EP_DB_Receive: a buffer that blocks the other one is freed.  The count
\* of a packet is less than what is left of xfer_len, so the endpoint stays VALID.
DbReceive ==
  /\ isr = "receive"
  /\ swBuf' = IF snapshot[1] = snapshot[2] THEN 1 - swBuf ELSE swBuf
  /\ isr' = "copy"
  /\ UNCHANGED <<fd, stat, dtog, ctr, hardwareVars, snapshot, transfer, bufs, sending, historyVars>>

\* Mutant: the buffer the toggle bit points to.
FilledNext == snapshot[1]

\* The buffer that was filled before the toggle.
Filled == 1 - snapshot[1]

\* HAL_PCD_EP_DB_Receive: USB_ReadPMA; a short packet ends the transfer.
Copy ==
  /\ isr = "copy"
  /\ LET packet == memory[Filled]
     IN  /\ transfer' = IF packet = Nothing THEN transfer ELSE Append(transfer, packet)
         /\ isr' = IF packet.last THEN "dataOut" ELSE "more"
  /\ UNCHANGED <<fd, registerVars, hardwareVars, snapshot, bufs, sending, historyVars>>

\* USB_EPStartXfer, from the handler: a blocked buffer is freed, and the endpoint
\* is VALID for the rest of the transfer.
StartXfer ==
  /\ isr = "more"
  /\ swBuf' = IF dtog = swBuf THEN 1 - swBuf ELSE swBuf
  /\ stat' = "valid"
  /\ isr' = "main"
  /\ UNCHANGED <<fd, dtog, ctr, hardwareVars, snapshot, transfer, bufs, sending, historyVars>>

-----------------------------------------------------------------------------
(* The class. *)

\* USBD_GS_CAN_PrepareReceive: a new transfer.
PrepareReceive == transfer' = <<>> /\ stat' = "valid"

\* Of the pool's frames, USBD_GS_Prefill_RX_Buffers gets as many as there are.
Prefilled(n) == n .. RxBufs

\* Whatever DataOut was given, the next frame is due.
TakeNote ==
  due' = IF transfer = <<>> THEN due ELSE Following(Last(transfer).frame)

\* Mutant: the endpoint stays VALID without receive buffers.
DataOutUnlimited ==
  /\ isr = "dataOut" /\ bufs > 0 /\ transfer # <<>>
  /\ bufs' \in Prefilled(bufs - 1)
  /\ PrepareReceive
  /\ starved' = (starved \/ bufs' < RxBufs)
  /\ TakeNote /\ isr' = "main"
  /\ UNCHANGED <<fd, dtog, swBuf, ctr, hardwareVars, snapshot, sending>>

\* USBD_GS_CAN_DataOut, a valid frame: queued; unless the reserve can be filled
\* the endpoint is set to NAK.  (The instant in which it is VALID before that is
\* TokenInWindow of HostFrames.)
DataOut ==
  /\ isr = "dataOut" /\ bufs > 0 /\ transfer # <<>>
  /\ bufs' \in Prefilled(bufs - 1)
  /\ transfer' = <<>>
  /\ stat' = IF bufs' = RxBufs THEN "valid" ELSE "nak"
  /\ starved' = (starved \/ bufs' < RxBufs)
  /\ TakeNote /\ isr' = "main"
  /\ UNCHANGED <<fd, dtog, swBuf, ctr, hardwareVars, snapshot, sending>>

\* USBD_GS_CAN_DataOut, out_prepare_receive: too short, or for a channel that does
\* not exist.
DataOutInvalid ==
  /\ isr = "dataOut" /\ bufs > 0
  /\ IF bufs = RxBufs THEN PrepareReceive ELSE UNCHANGED <<transfer, stat>>
  /\ TakeNote /\ isr' = "main"
  /\ UNCHANGED <<fd, dtog, swBuf, ctr, hardwareVars, snapshot, bufs, sending, starved>>

\* USBD_GS_CAN_DataOut: assert_basic(hcan->from_host_buf[0]) fails.
DataOutAssert ==
  /\ isr = "dataOut" /\ bufs = 0
  /\ isr' = "halted"
  /\ UNCHANGED <<fd, registerVars, hardwareVars, snapshot, transfer, bufs, sending, historyVars>>

Halted == isr = "halted" /\ UNCHANGED vars

\* USBD_GS_CAN_ReceiveFromHost, in the main loop.
ReceiveFromHost ==
  /\ isr = "main" /\ bufs < RxBufs
  /\ bufs' \in Prefilled(bufs + 1)
  /\ IF bufs' = RxBufs THEN PrepareReceive ELSE UNCHANGED <<transfer, stat>>
  /\ UNCHANGED <<fd, dtog, swBuf, ctr, hardwareVars, isr, snapshot, sending, historyVars>>

\* The host configures the device again, without a bus reset: DeInit closes the
\* endpoint and Start opens it.  Neither clears CTR_RX, and endpoint 0 is served
\* before this one.  (A reserve that is not complete then is the subject of
\* HostFrames.)
Reconfigure ==
  /\ isr = "main" /\ bufs = RxBufs
  /\ PrepareReceive
  /\ dtog' = 0 /\ swBuf' = 0 /\ begun' = FALSE
  /\ memory' = [b \in {0, 1} |-> Nothing]
  /\ sending' = [frame |-> Following(sending.frame), part |-> 1]
  /\ due' = Following(sending.frame)
  /\ UNCHANGED <<fd, ctr, isr, snapshot, bufs, starved>>

Next ==
  \/ HwReceive \/ Serve \/ DbReceive \/ Copy \/ StartXfer
  \/ DataOut \/ DataOutInvalid \/ DataOutAssert \/ Halted
  \/ ReceiveFromHost \/ Reconfigure

Spec == Init /\ [][Next]_vars

-----------------------------------------------------------------------------
(* Properties. *)

\* All packets of frame n, in order, and nothing else.
WholeFrame(n) ==
  /\ transfer # <<>>
  /\ \A i \in DOMAIN transfer :
       transfer[i] = [frame |-> n, part |-> i, last |-> i = Len(transfer)]

\* DataOut is given every frame the host has sent, whole and in order, or nothing for
\* a packet from before a new configuration.  A board with CAN FD is excepted once
\* its reserve was incomplete: ReceiveFromHost then may start anew in the middle of a
\* frame of two packets (NoFrameLoss).
FramesWhole ==
  isr = "dataOut" /\ ~(fd /\ starved) => transfer = <<>> \/ WholeFrame(due)

\* Without CAN FD every packet that comes in before the NAK is in force has a receive
\* buffer.  With it the first packet of a frame of two makes the endpoint VALID
\* again, and the reserve can be overrun (NoFrameLoss).
ReserveSuffices == ~fd /\ isr # "main" => bufs > 0

\* "We got enough in the pre-allocated reserve" (usbd_gs_can.c:793), "to ensure no
\* frame loss with OUT endpoint double-buffering" (914), for every board: DataOut has
\* a receive buffer for the frame it is called with, and is given the whole frame.
NoFrameLoss ==
  isr = "dataOut" => bufs > 0 /\ (transfer = <<>> \/ WholeFrame(due))

\* With the reserve complete and no packet to serve the endpoint takes packets: the
\* toggle bits never come to stand so that the peripheral waits for the software and
\* the software for the peripheral.
TakesPackets == isr = "main" /\ ~ctr /\ bufs = RxBufs => stat = "valid" /\ ~Blocked
=============================================================================
