----------------------------- MODULE UnitsProofs -----------------------------
(***************************************************************************)
(* Theorems of the parts that share no state with each other.              *)
(***************************************************************************)
EXTENDS MCUnits, FiniteSetTheorems, TLAPS

-----------------------------------------------------------------------------
(* The parts. *)

\* A behaviour of the whole is a behaviour of each part, so that what is proved of
\* a part holds beside the others: of the lists, of the LEDs, of the way to the
\* boot loader and of the OUT endpoint.
LEMMA PartsRun == UnitsSpec => Spec /\ Led!Spec /\ Boot!Spec /\ Out!Spec
<1>1. UnitsInit => Init /\ Led!Init /\ Boot!Init /\ Out!Init
  BY DEF UnitsInit
<1>2. [UnitsNext]_unitsVars =>
        [Next]_vars /\ [Led!Next]_Led!vars /\ [Boot!Next]_Boot!vars /\ [Out!Next]_Out!vars
  <2>1. UNCHANGED ledVars => UNCHANGED Led!vars
    BY DEF ledVars, Led!vars, Led!sequenceVars, Led!blinkVars, Led!loopVars
  <2>2. UNCHANGED dfuVars => UNCHANGED Boot!vars
    BY DEF dfuVars, Boot!vars
  <2>3. UNCHANGED outVars => UNCHANGED Out!vars
    BY DEF outVars, Out!vars, Out!registerVars, Out!hardwareVars, Out!historyVars
  <2>4. UNCHANGED unitsVars => UNCHANGED vars /\ UNCHANGED ledVars /\ UNCHANGED dfuVars /\ UNCHANGED outVars
    BY DEF unitsVars
  <2> QED BY <2>1, <2>2, <2>3, <2>4 DEF UnitsNext, ListStep, LedStep, BootStep, OutStep
<1> QED BY <1>1, <1>2, PTL DEF UnitsSpec, Spec, Led!Spec, Boot!Spec, Out!Spec

\* The sample is one of the unit's, and stays.
LEMMA SamplesKept == UnitsSpec => [](sample \in Samples(unit))
<1>1. UnitsInit => sample \in Samples(unit)
  BY DEF UnitsInit
<1>2. sample \in Samples(unit) /\ [UnitsNext]_unitsVars => (sample \in Samples(unit))'
  <2>1. [UnitsNext]_unitsVars => UNCHANGED <<unit, sample>>
    BY DEF UnitsNext, ListStep, LedStep, BootStep, OutStep, unitsVars
  <2> QED BY <2>1 DEF Samples
<1> QED BY <1>1, <1>2, PTL DEF UnitsSpec

-----------------------------------------------------------------------------
(* DETACH and the boot loader. *)

\* The magic word is in memory only for a request; so is dfu_detach_requested once
\* .bss is cleared.
BootInv ==
  /\ phase \in {"reset", "startup", "wakeup", "loop", "marked", "bootloader"}
  /\ magic \in BOOLEAN /\ detach \in BOOLEAN /\ asked \in BOOLEAN
  /\ magic => asked
  /\ phase \in {"wakeup", "loop", "marked"} /\ detach => asked
  /\ phase = "bootloader" => asked /\ known /\ ~magic

LEMMA BootBootLoaderAsked == Boot!Spec => []Boot!BootLoaderAsked
<1>1. Boot!Init => BootInv
  BY DEF Boot!Init, BootInv
<1>2. BootInv /\ [Boot!Next]_Boot!vars => BootInv'
  <2> SUFFICES ASSUME BootInv, [Boot!Next]_Boot!vars PROVE BootInv'
    OBVIOUS
  <2> USE DEF BootInv
  <2>1. CASE Boot!Jump
    BY <2>1 DEF Boot!Jump
  <2>2. CASE Boot!StartUp
    BY <2>2 DEF Boot!StartUp
  <2>3. CASE Boot!ClearBss
    BY <2>3 DEF Boot!ClearBss
  <2>4. CASE Boot!EnterLoop
    BY <2>4 DEF Boot!EnterLoop
  <2>5. CASE Boot!RunBootloader
    BY <2>5 DEF Boot!RunBootloader
  <2>6. CASE Boot!Detach
    BY <2>6 DEF Boot!Detach
  <2>7. CASE Boot!SystemReset
    BY <2>7 DEF Boot!SystemReset
  <2>8. CASE Boot!Reset
    BY <2>8 DEF Boot!Reset
  <2>9. CASE UNCHANGED Boot!vars
    BY <2>9 DEF Boot!vars
  <2> QED BY <2>1, <2>2, <2>3, <2>4, <2>5, <2>6, <2>7, <2>8, <2>9 DEF Boot!Next, Boot!Device
<1>3. BootInv => Boot!BootLoaderAsked
  BY DEF BootInv, Boot!BootLoaderAsked
<1> QED BY <1>1, <1>2, <1>3, PTL DEF Boot!Spec

-----------------------------------------------------------------------------
(* The double-buffered OUT endpoint. *)

Packets == [frame : 0..3, part : 0..2, last : BOOLEAN]
Positions == [frame : 0..3, part : 1..2]

OutTypes ==
  /\ fd \in BOOLEAN /\ begun \in BOOLEAN /\ ctr \in BOOLEAN /\ starved \in BOOLEAN
  /\ stat \in {"valid", "nak"} /\ dtog \in {0, 1} /\ swBuf \in {0, 1}
  /\ memory \in [{0, 1} -> Packets] /\ transfer \in Seq(Packets)
  /\ isr \in {"main", "receive", "copy", "more", "dataOut", "halted"}
  /\ snapshot \in {0, 1} \X {0, 1}
  /\ bufs \in 0..Out!RxBufs /\ due \in 0..3 /\ sending \in Positions

\* A packet is between the register and the receive buffer.
InService == isr \in {"receive", "copy"}

\* Who has which of the two packet buffers: after a packet is served the
\* peripheral and the software have different ones, until the next comes in.
Toggles ==
  /\ isr = "main" /\ begun /\ ~ctr => dtog # swBuf
  /\ InService => /\ dtog = IF ctr THEN 1 - snapshot[1] ELSE snapshot[1]
                  /\ swBuf = IF isr = "receive" THEN snapshot[2] ELSE 1 - snapshot[1]
  /\ isr \in {"more", "dataOut"} => (ctr <=> dtog = swBuf)

\* The endpoint is VALID while the reserve of receive buffers is complete, and
\* without CAN FD only then: at most two packets come in before the NAK.
Reserve ==
  /\ bufs = Out!RxBufs => stat = "valid"
  /\ ~fd => /\ stat = "valid" => bufs = Out!RxBufs
            /\ isr # "main" \/ ctr => bufs > 0
            /\ isr # "main" /\ ctr => bufs = Out!RxBufs
            /\ isr \notin {"more", "halted"}
  /\ fd /\ ~starved => bufs = Out!RxBufs

\* What the host sends after a packet; the packet is what the host sends at a position.
AfterPacket(p) ==
  IF p.last THEN [frame |-> Out!Following(p.frame), part |-> 1] ELSE [frame |-> p.frame, part |-> 2]
Carries(p, position) ==
  /\ p.frame = position.frame /\ p.part = position.part
  /\ p.last \/ (fd /\ p.part = 1)

\* The packet in service, the packet that waits for the handler.
Served  == memory[1 - snapshot[1]]
Waiting == memory[1 - dtog]

\* What comes after the packets in the receive buffer, and after the one in service.
Expected ==
  IF isr = "dataOut" /\ transfer # <<>> THEN [frame |-> Out!Following(due), part |-> 1]
  ELSE [frame |-> due, part |-> IF fd /\ transfer # <<>> THEN 2 ELSE 1]
ExpectedNext == IF InService /\ Served # Out!Nothing THEN AfterPacket(Served) ELSE Expected

\* The receive buffer: empty, the first half of a frame, a frame for DataOut, or
\* one that it has left there.
TransferInv ==
  \/ transfer = <<>> /\ isr # "more"
  \/ transfer = <<[frame |-> due, part |-> 1, last |-> FALSE]>> /\ fd /\ isr # "dataOut"
  \/ Out!WholeFrame(due) /\ isr = "dataOut"
  \/ isr = "main" /\ ~fd /\ ~ctr /\ bufs < Out!RxBufs

\* The packets from the receive buffer over the two packet buffers to the host are
\* in order; Nothing is a packet from before a new configuration.
Contents ==
  /\ TransferInv
  /\ InService => (Served = Out!Nothing /\ transfer = <<>>) \/ Carries(Served, Expected)
  /\ ctr => \/ Waiting = Out!Nothing /\ transfer = <<>> /\ ~begun /\ isr = "main" /\ sending = Expected
            \/ Carries(Waiting, ExpectedNext) /\ sending = AfterPacket(Waiting)
  /\ ~ctr => sending = ExpectedNext

OutInv == OutTypes /\ Toggles /\ Reserve /\ (~(fd /\ starved) => Contents)

-----------------------------------------------------------------------------
LEMMA FollowingType == ASSUME NEW n \in 0..3 PROVE Out!Following(n) \in 0..3
BY DEF Out!Following

LEMMA EmptyBuffers == <<>> \in Seq(Packets) /\ [b \in {0, 1} |-> Out!Nothing] \in [{0, 1} -> Packets]
<1>1. Out!Nothing \in Packets
  BY DEF Out!Nothing, Packets
<1> QED BY <1>1

LEMMA OutInit == Out!Init => OutInv
<1> SUFFICES ASSUME Out!Init PROVE OutInv
  OBVIOUS
<1> USE DEF Out!Init
<1>1. OutTypes
  <2>1. snapshot \in {0, 1} \X {0, 1}
    OBVIOUS
  <2>3. sending \in Positions
    BY DEF Positions
  <2>4. bufs \in 0..Out!RxBufs /\ due \in 0..3
    BY DEF Out!RxBufs
  <2>2. transfer \in Seq(Packets) /\ memory \in [{0, 1} -> Packets]
    BY EmptyBuffers
  <2> QED BY <2>1, <2>2, <2>3, <2>4 DEF OutTypes
<1>2. Toggles /\ Reserve
  BY DEF Toggles, Reserve, InService
<1>3. Contents
  BY DEF Contents, TransferInv, Expected, ExpectedNext, InService
<1> QED BY <1>1, <1>2, <1>3 DEF OutInv

LEMMA OutTypesNext == ASSUME OutTypes, [Out!Next]_outVars PROVE OutTypes'
<1> USE DEF OutTypes, Out!RxBufs
<1>1. CASE Out!HwReceive
  <2>1. /\ fd' = fd /\ stat' = stat /\ swBuf' = swBuf /\ isr' = isr /\ snapshot' = snapshot
        /\ transfer' = transfer /\ bufs' = bufs /\ due' = due /\ starved' = starved
        /\ dtog' = 1 - dtog /\ ctr' = TRUE /\ begun' = TRUE
    BY <1>1 DEF Out!HwReceive, Out!historyVars
  <2>2. PICK last \in BOOLEAN :
          /\ memory' = [memory EXCEPT ![dtog] = [frame |-> sending.frame, part |-> sending.part, last |-> last]]
          /\ sending' = IF last THEN [frame |-> Out!Following(sending.frame), part |-> 1] ELSE [sending EXCEPT !.part = 2]
    BY <1>1 DEF Out!HwReceive
  <2>3. sending' \in Positions
    BY <2>2, FollowingType DEF Positions
  <2>4. memory' \in [{0, 1} -> Packets]
    BY <2>2 DEF Packets, Positions
  <2> QED BY <2>1, <2>3, <2>4
<1>2. CASE Out!Serve \/ Out!DbReceive \/ Out!StartXfer
  <2>1. CASE Out!Serve
    BY <2>1 DEF Out!Serve, Out!hardwareVars, Out!historyVars
  <2>2. CASE Out!DbReceive
    BY <2>2 DEF Out!DbReceive, Out!hardwareVars, Out!historyVars
  <2>3. CASE Out!StartXfer
    BY <2>3 DEF Out!StartXfer, Out!hardwareVars, Out!historyVars
  <2> QED BY <1>2, <2>1, <2>2, <2>3
<1>3. CASE Out!Copy
  <2>1. memory[Out!Filled] \in Packets
    BY DEF Out!Filled
  <2>2. transfer' \in Seq(Packets) /\ isr' \in {"dataOut", "more"}
    BY <1>3, <2>1 DEF Out!Copy
  <2> QED BY <1>3, <2>2 DEF Out!Copy, Out!registerVars, Out!hardwareVars, Out!historyVars
<1>4. CASE Out!DataOut \/ Out!DataOutInvalid
  <2>1. due' \in 0..3
    <3>1. CASE transfer = <<>>
      BY <1>4, <3>1 DEF Out!DataOut, Out!DataOutInvalid, Out!TakeNote
    <3>2. CASE transfer # <<>>
      <4>1. transfer[Len(transfer)] \in Packets
        BY <3>2
      <4> QED BY <1>4, <3>2, <4>1, FollowingType DEF Out!DataOut, Out!DataOutInvalid, Out!TakeNote, Out!Last, Packets
    <3> QED BY <3>1, <3>2
  <2>2. bufs' \in 0..Out!RxBufs
    BY <1>4 DEF Out!DataOut, Out!DataOutInvalid, Out!Prefilled
  <2>3. transfer' \in Seq(Packets)
    BY <1>4, EmptyBuffers DEF Out!DataOut, Out!DataOutInvalid, Out!PrepareReceive
  <2>4. /\ isr' = "main" /\ stat' \in {"valid", "nak"} /\ starved' \in BOOLEAN
        /\ UNCHANGED <<fd, dtog, swBuf, ctr, begun, memory, snapshot, sending>>
    BY <1>4 DEF Out!DataOut, Out!DataOutInvalid, Out!PrepareReceive, Out!hardwareVars
  <2> QED BY <2>1, <2>2, <2>3, <2>4
<1>5. CASE Out!DataOutAssert
  BY <1>5 DEF Out!DataOutAssert, Out!registerVars, Out!hardwareVars, Out!historyVars
<1>6. CASE Out!ReceiveFromHost
  <2>1. bufs' \in 0..Out!RxBufs
    BY <1>6 DEF Out!ReceiveFromHost, Out!Prefilled
  <2>2. transfer' \in Seq(Packets)
    BY <1>6, EmptyBuffers DEF Out!ReceiveFromHost, Out!PrepareReceive
  <2> QED BY <1>6, <2>1, <2>2 DEF Out!ReceiveFromHost, Out!PrepareReceive, Out!hardwareVars, Out!historyVars
<1>7. CASE Out!Reconfigure
  <2>1. due' \in 0..3 /\ sending' \in Positions
    BY <1>7, FollowingType DEF Out!Reconfigure, Positions
  <2>2. transfer' \in Seq(Packets) /\ memory' \in [{0, 1} -> Packets]
    BY <1>7, EmptyBuffers DEF Out!Reconfigure, Out!PrepareReceive
  <2> QED BY <1>7, <2>1, <2>2 DEF Out!Reconfigure, Out!PrepareReceive
<1>8. CASE UNCHANGED outVars
  BY <1>8 DEF outVars
<1> QED BY <1>1, <1>2, <1>3, <1>4, <1>5, <1>6, <1>7, <1>8 DEF Out!Next, Out!Halted, outVars, Out!vars,
  Out!registerVars, Out!hardwareVars, Out!historyVars

LEMMA TogglesNext == ASSUME OutTypes, Toggles, [Out!Next]_outVars PROVE Toggles'
<1> USE DEF Toggles, InService, OutTypes
<1>1. CASE Out!HwReceive
  BY <1>1 DEF Out!HwReceive, Out!Blocked, Out!historyVars
<1>2. CASE Out!Serve
  BY <1>2 DEF Out!Serve
<1>3. CASE Out!DbReceive
  BY <1>3 DEF Out!DbReceive
<1>4. CASE Out!Copy
  BY <1>4 DEF Out!Copy, Out!registerVars
<1>5. CASE Out!StartXfer
  BY <1>5 DEF Out!StartXfer
<1>6. CASE Out!DataOut \/ Out!DataOutInvalid \/ Out!DataOutAssert
  BY <1>6 DEF Out!DataOut, Out!DataOutInvalid, Out!DataOutAssert, Out!registerVars, Out!hardwareVars
<1>7. CASE Out!ReceiveFromHost \/ Out!Reconfigure
  BY <1>7 DEF Out!ReceiveFromHost, Out!Reconfigure, Out!hardwareVars
<1>8. CASE UNCHANGED outVars
  BY <1>8 DEF outVars
<1> QED BY <1>1, <1>2, <1>3, <1>4, <1>5, <1>6, <1>7, <1>8 DEF Out!Next, Out!Halted, outVars, Out!vars,
  Out!registerVars, Out!hardwareVars, Out!historyVars

LEMMA ReserveNext ==
  ASSUME OutTypes, Reserve, ~(fd /\ starved) => Contents, [Out!Next]_outVars
  PROVE  Reserve'
<1> USE DEF Reserve, OutTypes, Out!RxBufs
<1>1. CASE Out!HwReceive
  BY <1>1 DEF Out!HwReceive, Out!historyVars
<1>2. CASE Out!Serve \/ Out!DbReceive
  BY <1>2 DEF Out!Serve, Out!DbReceive, Out!historyVars
<1>3. CASE Out!Copy
  <2>1. /\ UNCHANGED <<fd, stat, ctr, bufs, starved>> /\ isr = "copy"
        /\ isr' = IF memory[Out!Filled].last THEN "dataOut" ELSE "more"
    BY <1>3 DEF Out!Copy, Out!registerVars, Out!historyVars
  <2>2. ASSUME ~fd PROVE memory[Out!Filled].last
    BY <2>1, <2>2 DEF Contents, InService, Served, Carries, Out!Filled, Out!Nothing
  <2> QED BY <2>1, <2>2
<1>4. CASE Out!StartXfer
  BY <1>4 DEF Out!StartXfer, Out!historyVars
<1>5. CASE Out!DataOut \/ Out!DataOutInvalid
  BY <1>5 DEF Out!DataOut, Out!DataOutInvalid, Out!PrepareReceive, Out!Prefilled
<1>6. CASE Out!DataOutAssert
  BY <1>6 DEF Out!DataOutAssert, Out!registerVars, Out!historyVars
<1>7. CASE Out!ReceiveFromHost \/ Out!Reconfigure
  BY <1>7 DEF Out!ReceiveFromHost, Out!Reconfigure, Out!PrepareReceive, Out!Prefilled, Out!historyVars
<1>8. CASE UNCHANGED outVars
  BY <1>8 DEF outVars
<1> QED BY <1>1, <1>2, <1>3, <1>4, <1>5, <1>6, <1>7, <1>8 DEF Out!Next, Out!Halted, outVars, Out!vars,
  Out!registerVars, Out!hardwareVars, Out!historyVars

-----------------------------------------------------------------------------

\* Nothing is not a packet of the host.
LEMMA CarriesSomething ==
  ASSUME NEW p \in Packets, NEW position \in Positions, Carries(p, position)
  PROVE  p # Out!Nothing
BY DEF Carries, Packets, Positions, Out!Nothing

LEMMA ExpectedType == ASSUME OutTypes PROVE Expected \in Positions
BY FollowingType DEF OutTypes, Expected, Positions

LEMMA ReceiveKeeps ==
  ASSUME OutTypes, Toggles, Reserve, Contents, Out!HwReceive PROVE Contents'
<1>1. /\ UNCHANGED <<fd, stat, swBuf, isr, snapshot, transfer, bufs, due, starved>>
      /\ dtog' = 1 - dtog /\ ctr' = TRUE /\ ~ctr /\ stat = "valid"
  BY DEF Out!HwReceive, Out!historyVars
<1>2. PICK last \in (IF fd /\ sending.part = 1 THEN BOOLEAN ELSE {TRUE}) :
        /\ memory' = [memory EXCEPT ![dtog] = [frame |-> sending.frame, part |-> sending.part, last |-> last]]
        /\ sending' = IF last THEN [frame |-> Out!Following(sending.frame), part |-> 1] ELSE [sending EXCEPT !.part = 2]
  BY DEF Out!HwReceive
<1> DEFINE packet == [frame |-> sending.frame, part |-> sending.part, last |-> last]
<1>3. memory \in [{0, 1} -> Packets] /\ dtog \in {0, 1} /\ sending \in Positions
  BY DEF OutTypes
<1>4. Waiting' = packet
  BY <1>1, <1>2, <1>3 DEF Waiting
<1>5. InService => Served' = Served
  BY <1>1, <1>2, <1>3 DEF Served, Toggles, OutTypes, InService
<1>6. Expected' = Expected /\ (InService <=> InService')
  BY <1>1 DEF Expected, InService
<1>7. TransferInv'
  <2>1. ~(isr = "main" /\ ~fd /\ bufs < Out!RxBufs)
    BY <1>1 DEF Reserve, Out!RxBufs
  <2>2. Out!WholeFrame(due)' <=> Out!WholeFrame(due)
    BY <1>1 DEF Out!WholeFrame
  <2> QED BY <1>1, <2>1, <2>2 DEF Contents, TransferInv
<1>8. ExpectedNext' = ExpectedNext
  BY <1>5, <1>6 DEF ExpectedNext
<1>9. Carries(packet, sending)
  BY <1>3 DEF Carries, Positions
<1>10. sending' = AfterPacket(packet)
  BY <1>2, <1>3 DEF AfterPacket, Positions
<1>11. sending = ExpectedNext
  BY <1>1 DEF Contents
<1>12. InService' => (Served' = Out!Nothing /\ transfer' = <<>>) \/ Carries(Served, Expected)'
  BY <1>1, <1>5, <1>6 DEF Contents, Carries
<1>13. Carries(Waiting, ExpectedNext)' /\ sending' = AfterPacket(Waiting)'
  <2> HIDE DEF packet
  <2> QED BY <1>1, <1>4, <1>8, <1>9, <1>10, <1>11 DEF Carries, AfterPacket
<1> QED BY <1>1, <1>7, <1>12, <1>13 DEF Contents

LEMMA ServeKeeps ==
  ASSUME OutTypes, Toggles, Contents, Out!Serve PROVE Contents'
<1>1. /\ UNCHANGED <<fd, stat, dtog, swBuf, begun, memory, transfer, bufs, sending, due, starved>>
      /\ isr = "main" /\ ctr /\ ctr' = FALSE /\ isr' = "receive" /\ snapshot' = <<dtog, swBuf>>
  BY DEF Out!Serve, Out!hardwareVars, Out!historyVars
<1>2. Served' = Waiting /\ Waiting \in Packets
  BY <1>1 DEF Served, Waiting, OutTypes
<1>3. Expected' = Expected /\ ExpectedNext = Expected /\ InService'
  BY <1>1 DEF Expected, ExpectedNext, InService
<1>4. TransferInv'
  BY <1>1 DEF Contents, TransferInv
<1>5. CASE Waiting = Out!Nothing /\ transfer = <<>> /\ sending = Expected
  BY <1>1, <1>2, <1>3, <1>4, <1>5 DEF Contents, ExpectedNext
<1>6. CASE Carries(Waiting, Expected) /\ sending = AfterPacket(Waiting)
  <2>1. Waiting # Out!Nothing
    BY <1>2, <1>6, ExpectedType, CarriesSomething
  <2>2. ExpectedNext' = AfterPacket(Waiting)
    BY <1>2, <1>3, <2>1 DEF ExpectedNext, AfterPacket
  <2>3. Carries(Served, Expected)'
    BY <1>1, <1>2, <1>3, <1>6 DEF Carries
  <2> QED BY <1>1, <1>4, <1>6, <2>2, <2>3 DEF Contents
<1> QED BY <1>1, <1>3, <1>5, <1>6 DEF Contents

\* The handler and the reserve go on, the packets stay where they are.
LEMMA PacketsStay ==
  ASSUME Contents, UNCHANGED <<fd, dtog, ctr, memory, snapshot, sending>>,
         TransferInv', Expected' = Expected, InService' <=> InService,
         transfer = <<>> => transfer' = <<>>,
         isr = "main" /\ ~begun => isr' = "main" /\ ~begun'
  PROVE  Contents'
<1>1. Served' = Served /\ Waiting' = Waiting
  BY DEF Served, Waiting
<1>2. ExpectedNext' = ExpectedNext
  BY <1>1 DEF ExpectedNext, AfterPacket
<1>3. Carries(Served, Expected)' <=> Carries(Served, Expected)
  BY <1>1 DEF Carries
<1>4. Carries(Waiting, ExpectedNext)' <=> Carries(Waiting, ExpectedNext)
  BY <1>1, <1>2 DEF Carries
<1>5. AfterPacket(Waiting)' = AfterPacket(Waiting)
  BY <1>1 DEF AfterPacket
<1>6. InService' => (Served' = Out!Nothing /\ transfer' = <<>>) \/ Carries(Served, Expected)'
  BY <1>1, <1>3 DEF Contents
<1>7. ctr' => \/ Waiting' = Out!Nothing /\ transfer' = <<>> /\ ~begun' /\ isr' = "main" /\ sending' = Expected'
              \/ Carries(Waiting, ExpectedNext)' /\ sending' = AfterPacket(Waiting)'
  BY <1>1, <1>4, <1>5 DEF Contents
<1>8. ~ctr' => sending' = ExpectedNext'
  BY <1>2 DEF Contents
<1> QED BY <1>6, <1>7, <1>8 DEF Contents

\* Tuples of one and two packets.
LEMMA OnePacket ==
  ASSUME NEW s, NEW p, s = <<p>>
  PROVE  s # <<>> /\ Len(s) = 1 /\ DOMAIN s = {1} /\ s[1] = p
OBVIOUS

LEMMA TwoPackets ==
  ASSUME NEW s, NEW p, NEW q, s = Append(<<p>>, q)
  PROVE  s # <<>> /\ Len(s) = 2 /\ DOMAIN s = {1, 2} /\ s[1] = p /\ s[2] = q
OBVIOUS

LEMMA CopyKeeps ==
  ASSUME OutTypes, Contents, Out!Copy PROVE Contents'
<1>1. /\ UNCHANGED <<fd, stat, dtog, swBuf, ctr, begun, memory, snapshot, bufs, sending, due, starved>>
      /\ isr = "copy" /\ isr' = (IF Served.last THEN "dataOut" ELSE "more")
      /\ transfer' = IF Served = Out!Nothing THEN transfer ELSE Append(transfer, Served)
  BY DEF Out!Copy, Out!Filled, Served, Out!registerVars, Out!hardwareVars, Out!historyVars
<1>2. Waiting' = Waiting /\ Served \in Packets /\ due \in 0..3 /\ transfer \in Seq(Packets)
  BY <1>1 DEF Waiting, Served, OutTypes
<1>3. ctr => Carries(Waiting, ExpectedNext) /\ sending = AfterPacket(Waiting)
  BY <1>1 DEF Contents
<1>4. ExpectedNext' = Expected' /\ ~InService' /\ InService
  BY <1>1 DEF ExpectedNext, InService
<1>5. TransferInv' /\ Expected' = ExpectedNext
  <2>1. CASE Served = Out!Nothing
    <3>1. transfer = <<>> /\ transfer' = <<>> /\ isr' = "dataOut"
      BY <1>1, <1>4, <2>1 DEF Contents, Carries, Expected, Out!Nothing, OutTypes
    <3> QED BY <1>1, <1>4, <2>1, <3>1 DEF TransferInv, Expected, ExpectedNext
  <2>2. CASE Served # Out!Nothing
    <3>1. Carries(Served, Expected) /\ ExpectedNext = AfterPacket(Served)
      BY <1>4, <2>2 DEF Contents, ExpectedNext
    <3>2. Served = [frame |-> Served.frame, part |-> Served.part, last |-> Served.last]
          /\ Served.last \in BOOLEAN
      BY <1>2 DEF Packets
    <3>3. CASE transfer = <<>>
      <4>1. Served.frame = due /\ Served.part = 1 /\ (Served.last \/ fd)
        BY <3>1, <3>3, <1>1 DEF Carries, Expected
      <4>2. transfer' = <<Served>>
        BY <1>1, <2>2, <3>3
      <4>3. transfer' # <<>> /\ Len(transfer') = 1 /\ DOMAIN transfer' = {1} /\ transfer'[1] = Served
        BY <4>2, OnePacket
      <4>4. CASE Served.last
        <5>1. isr' = "dataOut" /\ Expected' = AfterPacket(Served)
          BY <1>1, <4>1, <4>3, <4>4 DEF Expected, AfterPacket
        <5>2. Served = [frame |-> due, part |-> 1, last |-> TRUE]
          BY <3>2, <4>1, <4>4
        <5>3. Out!WholeFrame(due)'
          BY <1>1, <4>3, <5>2 DEF Out!WholeFrame
        <5> QED BY <3>1, <5>1, <5>3 DEF TransferInv
      <4>5. CASE ~Served.last
        <5>1. isr' = "more" /\ Expected' = AfterPacket(Served)
          BY <1>1, <4>1, <4>2, <4>5 DEF Expected, AfterPacket
        <5>2. transfer' = <<[frame |-> due, part |-> 1, last |-> FALSE]>>
          BY <3>2, <4>1, <4>2, <4>5
        <5> QED BY <1>1, <3>1, <4>1, <4>5, <5>1, <5>2 DEF TransferInv
      <4> QED BY <4>4, <4>5
    <3>4. CASE transfer = <<[frame |-> due, part |-> 1, last |-> FALSE]>> /\ fd
      <4>1. Served = [frame |-> due, part |-> 2, last |-> TRUE]
        BY <1>1, <3>1, <3>2, <3>4 DEF Carries, Expected
      <4> DEFINE first == [frame |-> due, part |-> 1, last |-> FALSE]
      <4>2. /\ transfer' # <<>> /\ Len(transfer') = 2 /\ DOMAIN transfer' = {1, 2}
            /\ transfer'[1] = first /\ transfer'[2] = Served
        <5>1. transfer' = Append(<<first>>, Served)
          BY <1>1, <2>2, <3>4
        <5> HIDE DEF first
        <5> QED BY <5>1, TwoPackets
      <4>3. isr' = "dataOut" /\ Expected' = AfterPacket(Served)
        BY <1>1, <4>1, <4>2 DEF Expected, AfterPacket
      <4>4. Out!WholeFrame(due)'
        BY <1>1, <4>1, <4>2 DEF Out!WholeFrame
      <4> QED BY <3>1, <4>3, <4>4 DEF TransferInv
    <3> QED BY <1>1, <3>3, <3>4 DEF Contents, TransferInv
  <2> QED BY <2>1, <2>2
<1>6. ctr' => Carries(Waiting, ExpectedNext)' /\ sending' = AfterPacket(Waiting)'
  BY <1>1, <1>2, <1>3, <1>4, <1>5 DEF Carries, AfterPacket
<1>7. ~ctr' => sending' = ExpectedNext'
  BY <1>1, <1>4, <1>5 DEF Contents
<1> QED BY <1>4, <1>5, <1>6, <1>7 DEF Contents

LEMMA DataOutKeeps ==
  ASSUME OutTypes, Reserve, Contents, ~(fd /\ starved), Out!DataOut \/ Out!DataOutInvalid
  PROVE  Contents'
<1>1. /\ UNCHANGED <<fd, dtog, swBuf, ctr, begun, memory, snapshot, sending>>
      /\ isr = "dataOut" /\ isr' = "main" /\ Out!TakeNote
      /\ transfer' = <<>> \/ (transfer' = transfer /\ bufs' = bufs /\ bufs # Out!RxBufs)
  <2>1. CASE Out!DataOut
    BY <2>1 DEF Out!DataOut, Out!hardwareVars
  <2>2. CASE Out!DataOutInvalid
    BY <2>2 DEF Out!DataOutInvalid, Out!PrepareReceive, Out!hardwareVars
  <2> QED BY <2>1, <2>2
<1>2. due' = IF transfer = <<>> THEN due ELSE Out!Following(due)
  <2>1. CASE transfer = <<>>
    BY <1>1, <2>1 DEF Out!TakeNote
  <2>2. CASE transfer # <<>>
    <3>1. Out!WholeFrame(due) /\ transfer \in Seq(Packets)
      BY <1>1, <2>2 DEF Contents, TransferInv, OutTypes
    <3>2. transfer[Len(transfer)].frame = due
      BY <2>2, <3>1 DEF Out!WholeFrame
    <3> QED BY <1>1, <2>2, <3>2 DEF Out!TakeNote, Out!Last
  <2> QED BY <2>1, <2>2
<1>3. TransferInv' /\ (transfer' # <<>> => ~fd /\ ~ctr)
  <2>1. CASE transfer' = <<>>
    BY <1>1, <2>1 DEF TransferInv
  <2>2. CASE transfer' # <<>>
    BY <1>1, <2>2 DEF TransferInv, Reserve, OutTypes, Out!RxBufs
  <2> QED BY <2>1, <2>2
<1>4. Expected' = Expected
  BY <1>1, <1>2, <1>3 DEF Expected
<1> QED BY <1>1, <1>3, <1>4, PacketsStay DEF InService

LEMMA ReconfigureKeeps ==
  ASSUME OutTypes, Contents, Out!Reconfigure PROVE Contents'
<1>1. /\ UNCHANGED <<fd, ctr, isr, snapshot, bufs, starved>> /\ isr = "main" /\ transfer' = <<>>
      /\ dtog' = 0 /\ begun' = FALSE /\ memory' = [b \in {0, 1} |-> Out!Nothing]
      /\ sending' = [frame |-> due', part |-> 1]
  BY DEF Out!Reconfigure, Out!PrepareReceive
<1>2. Waiting' = Out!Nothing
  BY <1>1 DEF Waiting
<1>3. ~InService' /\ Expected' = sending'
  BY <1>1 DEF InService, Expected
<1> QED BY <1>1, <1>2, <1>3 DEF Contents, TransferInv, ExpectedNext

LEMMA ContentsNext ==
  ASSUME OutInv, ~(fd /\ starved)', [Out!Next]_outVars PROVE Contents'
<1> USE DEF OutInv
<1>1. ~(fd /\ starved) /\ Contents
  <2>1. fd' = fd /\ (starved => starved')
    <3>1. CASE Out!HwReceive \/ Out!Serve \/ Out!DbReceive \/ Out!Copy \/ Out!StartXfer
      <4>1. UNCHANGED <<fd, starved>>
        BY <3>1, Zenon DEF Out!HwReceive, Out!Serve, Out!DbReceive, Out!Copy, Out!StartXfer, Out!historyVars
      <4> QED BY <4>1
    <3>2. CASE Out!DataOut
      BY <3>2, Zenon DEF Out!DataOut
    <3>4. CASE Out!DataOutInvalid \/ Out!DataOutAssert \/ Out!ReceiveFromHost \/ Out!Reconfigure
      <4>1. UNCHANGED <<fd, starved>>
        BY <3>4, Zenon DEF Out!DataOutInvalid, Out!DataOutAssert, Out!ReceiveFromHost, Out!Reconfigure, Out!historyVars
      <4> QED BY <4>1
    <3>3. CASE UNCHANGED outVars
      BY <3>3 DEF outVars
    <3> QED BY <3>1, <3>2, <3>3, <3>4 DEF Out!Next, Out!Halted, outVars, Out!vars,
      Out!registerVars, Out!hardwareVars, Out!historyVars
  <2> QED BY <2>1
<1>2. CASE Out!DbReceive
  <2>1. /\ UNCHANGED <<fd, dtog, ctr, begun, memory, snapshot, sending, transfer, bufs, due>>
        /\ isr = "receive" /\ isr' = "copy"
    BY <1>2 DEF Out!DbReceive, Out!hardwareVars, Out!historyVars
  <2>2. TransferInv' /\ Expected' = Expected /\ InService /\ InService'
    BY <1>1, <2>1 DEF Contents, TransferInv, Expected, InService, Out!WholeFrame
  <2> QED BY <1>1, <2>1, <2>2, PacketsStay
<1>3. CASE Out!StartXfer
  <2>1. /\ UNCHANGED <<fd, dtog, ctr, begun, memory, snapshot, sending, transfer, bufs, due>>
        /\ isr = "more" /\ isr' = "main"
    BY <1>3 DEF Out!StartXfer, Out!hardwareVars, Out!historyVars
  <2>2. TransferInv' /\ Expected' = Expected /\ ~InService /\ ~InService'
    BY <1>1, <2>1 DEF Contents, TransferInv, Expected, InService
  <2> QED BY <1>1, <2>1, <2>2, PacketsStay
<1>4. CASE Out!ReceiveFromHost
  <2>1. /\ UNCHANGED <<fd, dtog, ctr, begun, memory, isr, snapshot, sending, due>>
        /\ isr = "main" /\ bufs # Out!RxBufs
        /\ transfer' = <<>> \/ (transfer' = transfer /\ bufs' # Out!RxBufs)
    BY <1>4 DEF Out!ReceiveFromHost, Out!PrepareReceive, Out!hardwareVars, Out!historyVars, Out!RxBufs
  <2>2. bufs' \in 0..Out!RxBufs
    BY OutTypesNext DEF OutTypes
  <2>3. ~fd
    BY <1>1, <2>1 DEF Reserve
  <2>4. TransferInv' /\ Expected' = Expected /\ ~InService /\ ~InService'
    BY <1>1, <2>1, <2>2, <2>3 DEF Contents, TransferInv, Expected, InService, Out!RxBufs
  <2> QED BY <1>1, <2>1, <2>4, PacketsStay
<1>5. CASE Out!DataOutAssert
  BY <1>1, <1>5 DEF Out!DataOutAssert, Reserve, Out!RxBufs
<1>6. CASE UNCHANGED outVars
  <2>1. UNCHANGED <<fd, dtog, ctr, begun, memory, isr, snapshot, sending, transfer, bufs, due>>
    BY <1>6 DEF outVars
  <2>2. TransferInv' /\ Expected' = Expected /\ (InService' <=> InService)
    BY <1>1, <2>1 DEF Contents, TransferInv, Expected, InService, Out!WholeFrame
  <2> QED BY <1>1, <2>1, <2>2, PacketsStay
<1>7. CASE Out!HwReceive \/ Out!Serve \/ Out!Copy
  BY <1>1, <1>7, ReceiveKeeps, ServeKeeps, CopyKeeps
<1>8. CASE Out!DataOut \/ Out!DataOutInvalid \/ Out!Reconfigure
  BY <1>1, <1>8, DataOutKeeps, ReconfigureKeeps
<1> QED BY <1>2, <1>3, <1>4, <1>5, <1>6, <1>7, <1>8 DEF Out!Next, Out!Halted, outVars, Out!vars,
  Out!registerVars, Out!hardwareVars, Out!historyVars

LEMMA OutInvImplies == OutInv => Out!FramesWhole /\ Out!ReserveSuffices /\ Out!TakesPackets
<1> SUFFICES ASSUME OutInv PROVE Out!FramesWhole /\ Out!ReserveSuffices /\ Out!TakesPackets
  OBVIOUS
<1>1. Out!FramesWhole
  BY DEF OutInv, Contents, TransferInv, Out!FramesWhole
<1>2. Out!ReserveSuffices
  BY DEF OutInv, Reserve, OutTypes, Out!ReserveSuffices
<1>3. Out!TakesPackets
  BY DEF OutInv, Reserve, Toggles, OutTypes, Out!TakesPackets, Out!Blocked
<1> QED BY <1>1, <1>2, <1>3

LEMMA OutParts == Out!Spec => [](Out!FramesWhole /\ Out!ReserveSuffices /\ Out!TakesPackets)
<1>1. OutInv /\ [Out!Next]_Out!vars => OutInv'
  <2> SUFFICES ASSUME OutInv, [Out!Next]_outVars PROVE OutInv'
    BY DEF outVars, Out!vars, Out!registerVars, Out!hardwareVars, Out!historyVars
  <2> QED BY OutTypesNext, TogglesNext, ReserveNext, ContentsNext DEF OutInv
<1> QED BY <1>1, OutInit, OutInvImplies, PTL DEF Out!Spec

-----------------------------------------------------------------------------
(* The error frames. *)

LEMMA SameCardinality == ASSUME NEW S PROVE Report!Cardinality(S) = Cardinality(S)
BY DEF Report!Cardinality, Cardinality

\* can_err_to_state.
LEMMA ErrToState ==
  ASSUME NEW err \in Nat
  PROVE  Report!ErrToState(err) =
           IF err < 96 THEN 0 ELSE IF err < 128 THEN 1 ELSE IF err < 256 THEN 2 ELSE 3
<1>1. {t \in Report!Thresholds : err >= t} =
        IF err < 96 THEN {} ELSE IF err < 128 THEN {96} ELSE IF err < 256 THEN {96, 128} ELSE {96, 128, 256}
  BY DEF Report!Thresholds
<1>2. Cardinality({}) = 0 /\ Cardinality({96}) = 1 /\ Cardinality({96, 128}) = 2 /\ Cardinality({96, 128, 256}) = 3
  <2>1. /\ IsFiniteSet({}) /\ Cardinality({}) = 0
    BY FS_EmptySet
  <2>2. /\ IsFiniteSet({} \cup {96}) /\ Cardinality({} \cup {96}) = 1
    BY <2>1, FS_AddElement
  <2>3. /\ IsFiniteSet({96} \cup {128}) /\ Cardinality({96} \cup {128}) = 2
    <3>1. {} \cup {96} = {96}
      OBVIOUS
    <3> QED BY <2>2, <3>1, FS_AddElement
  <2>4. /\ Cardinality({96, 128} \cup {256}) = 3
    <3>1. {96} \cup {128} = {96, 128}
      OBVIOUS
    <3> QED BY <2>3, <3>1, FS_AddElement
  <2>5. {} \cup {96} = {96} /\ {96} \cup {128} = {96, 128} /\ {96, 128} \cup {256} = {96, 128, 256}
    OBVIOUS
  <2> QED BY <2>1, <2>2, <2>3, <2>4, <2>5
<1> QED BY <1>1, <1>2, SameCardinality DEF Report!ErrToState

\* The fields of a register snapshot, and the state GET_STATE reports.
SnapshotShows(s, driver, tec, rec) ==
  /\ s.tec \in Nat /\ (tec < 256 => s.tec = tec)
  /\ s.rec = IF driver = "mcan" /\ rec > 127 THEN 127 ELSE rec
  /\ s.driver = driver
  /\ Report!State(s) = IF tec >= 256 THEN 3 ELSE IF tec >= 128 \/ rec >= 128 THEN 2
                      ELSE IF tec >= 96 \/ rec >= 96 THEN 1 ELSE 0

LEMMA SnapshotFields ==
  ASSUME NEW driver, NEW tec \in Nat, NEW rec \in 0..255, NEW lec, NEW dlec
  PROVE  SnapshotShows(Report!Snapshot(driver, tec, rec, lec, dlec), driver, tec, rec)
<1> DEFINE s == Report!Snapshot(driver, tec, rec, lec, dlec)
<1>1. Report!Min({rec, 127}) = IF rec > 127 THEN 127 ELSE rec
  BY DEF Report!Min
<1>2. /\ s.tec = tec % 256 /\ s.driver = driver
      /\ s.rec = IF driver = "mcan" THEN Report!Min({rec, 127}) ELSE rec
      /\ s.ewg <=> (tec >= 96 \/ rec >= 96)
      /\ s.epv <=> (tec >= 128 \/ rec >= 128)
      /\ s.boff <=> (tec >= 256)
  BY DEF Report!Snapshot
<1>3. tec % 256 \in Nat /\ (tec < 256 => tec % 256 = tec)
  OBVIOUS
<1>4. Report!State(s) = IF tec >= 256 THEN 3 ELSE IF tec >= 128 \/ rec >= 128 THEN 2
                        ELSE IF tec >= 96 \/ rec >= 96 THEN 1 ELSE 0
  BY <1>2 DEF Report!State, Report!BUS_OFF, Report!ERROR_PASSIVE, Report!ERROR_WARNING, Report!ERROR_ACTIVE
<1> HIDE DEF s
<1>5. SnapshotShows(s, driver, tec, rec)
  BY <1>1, <1>2, <1>3, <1>4 DEF SnapshotShows
<1> QED BY <1>5 DEF s

\* What the flags of a state change say: the state is the higher of two levels, and
\* the flag of either names it.
Flags(tx, rx) ==
  (IF tx >= rx THEN Report!TxFlag[tx] ELSE {}) \cup (IF tx <= rx THEN Report!RxFlag[rx] ELSE {})

LEMMA FlagsNameState ==
  ASSUME NEW tx \in 0..2, NEW rx \in 0..2
  PROVE  /\ Flags(tx, rx) # {}
         /\ Flags(tx, rx) \subseteq Report!Levels[IF tx >= rx THEN tx ELSE rx]
<1>1. /\ \A n \in 0..2 : Report!TxFlag[n] # {} /\ Report!RxFlag[n] # {}
      /\ \A n \in 0..2 : Report!Levels[n] = Report!TxFlag[n] \cup Report!RxFlag[n]
  BY DEF Report!TxFlag, Report!RxFlag, Report!Levels, Report!ERROR_ACTIVE, Report!ERROR_WARNING,
    Report!ERROR_PASSIVE, Report!BUS_OFF
<1> QED BY <1>1 DEF Flags

\* can_drv_handle_bus_error on a frame for a change of state.
LEMMA BusErrorAdds ==
  ASSUME NEW s, NEW ctrl, NEW frame,
         frame = [id |-> {"err", "crtl", "cnt"}, ctrl |-> ctrl, prot |-> {}, counters |-> <<0, 0>>]
  PROVE  LET result == Report!WithBusError(s, frame)
         IN  /\ result.ctrl = ctrl
             /\ "cnt" \in result.id /\ "busoff" \notin result.id
             /\ result.counters = IF Report!Handled(s) THEN <<s.tec, s.rec>> ELSE <<0, 0>>
BY DEF Report!WithBusError

\* For every value of the counters the error frames agree with the state that
\* GET_STATE reports.
THEOREM ErrorFramesAgree ==
  \A driver \in {"bxcan", "mcan"}, tec \in Nat, rec \in 0..255, lec \in Report!Errors, dlec \in Report!Errors :
     Report!Agrees(Report!Snapshot(driver, tec, rec, lec, dlec))
<1> SUFFICES ASSUME NEW driver \in {"bxcan", "mcan"}, NEW tec \in Nat, NEW rec \in 0..255,
                    NEW lec \in Report!Errors, NEW dlec \in Report!Errors, NEW s,
                    s = Report!Snapshot(driver, tec, rec, lec, dlec)
             PROVE  Report!Agrees(s)
  OBVIOUS
<1>1. /\ s.tec \in Nat /\ (tec < 256 => s.tec = tec)
      /\ s.rec = IF driver = "mcan" /\ rec > 127 THEN 127 ELSE rec
      /\ s.driver = driver
      /\ Report!State(s) = IF tec >= 256 THEN 3 ELSE IF tec >= 128 \/ rec >= 128 THEN 2
                          ELSE IF tec >= 96 \/ rec >= 96 THEN 1 ELSE 0
  <2>1. SnapshotShows(s, driver, tec, rec)
    BY SnapshotFields
  <2> QED BY <2>1 DEF SnapshotShows
<1> DEFINE tx == Report!ErrToState(s.tec)
           rx == Report!ErrToState(s.rec)
           ctrl == Flags(tx, rx)
           prepared == [id |-> {"err", "crtl", "cnt"}, ctrl |-> {}, prot |-> {}, counters |-> <<0, 0>>]
           changed == [id |-> {"err", "crtl", "cnt"}, ctrl |-> ctrl, prot |-> {}, counters |-> <<0, 0>>]
<1>2. [Report!Prepared EXCEPT !.id = @ \cup {"crtl", "cnt"}] = prepared
  BY DEF Report!Prepared
<1>3. Report!WithLevel(s, prepared) = changed
  <2>1. Report!WithLevel(s, prepared) = [prepared EXCEPT !.ctrl = ctrl]
    <3> HIDE DEF prepared
    <3> QED BY Zenon DEF Report!WithLevel, Flags
  <2>2. \A c : [prepared EXCEPT !.ctrl = c] = [id |-> {"err", "crtl", "cnt"}, ctrl |-> c, prot |-> {}, counters |-> <<0, 0>>]
    OBVIOUS
  <2> HIDE DEF ctrl
  <2> QED BY <2>1, <2>2
<1>4. Report!State(s) # Report!BUS_OFF => Report!StateFrame(s) = Report!WithBusError(s, changed)
  <2> HIDE DEF prepared, changed
  <2> QED BY <1>2, <1>3 DEF Report!StateFrame
<1>5. LET result == Report!WithBusError(s, changed)
      IN  /\ result.ctrl = ctrl
          /\ "cnt" \in result.id /\ "busoff" \notin result.id
          /\ result.counters = IF Report!Handled(s) THEN <<s.tec, s.rec>> ELSE <<0, 0>>
  <2> HIDE DEF ctrl
  <2> QED BY BusErrorAdds
<1> HIDE DEF tx, rx, ctrl, changed
<1>6. Report!State(s) = Report!BUS_OFF <=> "busoff" \in Report!StateFrame(s).id
  <2>1. CASE Report!State(s) = Report!BUS_OFF
    BY <2>1 DEF Report!StateFrame, Report!Prepared
  <2>2. CASE Report!State(s) # Report!BUS_OFF
    BY <1>4, <1>5, <2>2
  <2> QED BY <2>1, <2>2
<1>7. ASSUME Report!State(s) # Report!BUS_OFF, ~Report!Hidden(s)
      PROVE  /\ Report!StateFrame(s).ctrl # {} /\ Report!StateFrame(s).ctrl \subseteq Report!Levels[Report!State(s)]
             /\ "cnt" \in Report!StateFrame(s).id /\ Report!StateFrame(s).counters = <<s.tec, s.rec>>
  <2>1. /\ Report!StateFrame(s).ctrl = ctrl /\ "cnt" \in Report!StateFrame(s).id
        /\ Report!StateFrame(s).counters = IF Report!Handled(s) THEN <<s.tec, s.rec>> ELSE <<0, 0>>
    BY <1>4, <1>5, <1>7
  <2>2. Report!StateFrame(s).counters = <<s.tec, s.rec>>
    BY <2>1 DEF Report!Handled
  <2>3. tec < 256 /\ s.tec = tec
    BY <1>1, <1>7 DEF Report!BUS_OFF
  <2>4. s.rec \in Nat /\ s.rec < 256 /\ s.rec <= rec
    BY <1>1
  <2>5. /\ tx = IF tec < 96 THEN 0 ELSE IF tec < 128 THEN 1 ELSE 2
        /\ rx = IF s.rec < 96 THEN 0 ELSE IF s.rec < 128 THEN 1 ELSE 2
    BY <2>3, <2>4, ErrToState DEF tx, rx
  <2>6. Report!State(s) = IF tec >= 128 \/ rec >= 128 THEN 2 ELSE IF tec >= 96 \/ rec >= 96 THEN 1 ELSE 0
    BY <1>1, <2>3
  <2>7. rec >= 128 /\ driver = "mcan" => tec >= 128
    BY <1>1, <1>7, <2>3, <2>6 DEF Report!Hidden, Report!ERROR_PASSIVE
  <2>8. /\ Report!State(s) = IF tx >= rx THEN tx ELSE rx
        /\ tx \in 0..2 /\ rx \in 0..2 /\ Report!State(s) \in 0..2
    BY <1>1, <2>3, <2>4, <2>5, <2>6, <2>7
  <2>9. ctrl # {} /\ ctrl \subseteq Report!Levels[Report!State(s)]
    BY <2>8, FlagsNameState DEF ctrl
  <2> QED BY <2>1, <2>2, <2>9
<1>8. ASSUME Report!BusErrorPending(s), Report!Handled(s)
      PROVE  /\ "buserror" \in Report!BusErrorFrame(s).id
             /\ Report!BusErrorFrame(s).prot # {} \/ "ack" \in Report!BusErrorFrame(s).id
  <2>1. /\ Report!BusErrorFrame(s).id = {"err"} \cup {"prot", "buserror", "cnt"} \cup (IF "ack" \in {s.lec, s.dlec} THEN {"ack"} ELSE {})
        /\ Report!BusErrorFrame(s).prot = Report!Location(s.lec) \cup Report!Location(s.dlec)
    BY <1>8 DEF Report!BusErrorFrame, Report!WithBusError, Report!Prepared
  <2> QED BY <1>8, <2>1 DEF Report!BusErrorPending, Report!Location
<1> QED BY <1>6, <1>7, <1>8 DEF Report!Agrees

\* The error frames of CAN_HandleError agree with the state GET_STATE reports.
THEOREM FramesAgreeCorrect == UnitsSpec => []FramesAgree
<1>1. sample \in Samples(unit) => FramesAgree
  <2> SUFFICES ASSUME sample \in Report!Snapshots PROVE Report!Agrees(sample)
    BY DEF FramesAgree, Samples
  <2>1. Report!Tecs \subseteq Nat /\ Report!Recs \subseteq 0..255
    BY DEF Report!Tecs, Report!Recs
  <2>2. PICK driver \in {"bxcan", "mcan"}, tec \in Report!Tecs, rec \in Report!Recs, lec \in Report!Errors, dlec \in {"none", "bit0"} :
          sample = Report!Snapshot(driver, tec, rec, lec, dlec)
    BY DEF Report!Snapshots
  <2>3. dlec \in Report!Errors
    BY DEF Report!Errors
  <2> QED BY <2>1, <2>2, <2>3, ErrorFramesAgree
<1> QED BY <1>1, SamplesKept, PTL

-----------------------------------------------------------------------------
(* Bit timings and the transmitter delay compensation. *)

\* The table of the powers of two.
LEMMA BitValues ==
  /\ Timing!BitValue(0) = 1 /\ Timing!BitValue(1) = 2 /\ Timing!BitValue(2) = 4
  /\ Timing!BitValue(3) = 8 /\ Timing!BitValue(4) = 16 /\ Timing!BitValue(5) = 32
  /\ Timing!BitValue(6) = 64 /\ Timing!BitValue(7) = 128 /\ Timing!BitValue(8) = 256
  /\ Timing!BitValue(9) = 512 /\ Timing!BitValue(10) = 1024 /\ Timing!BitValue(11) = 2048
  /\ Timing!UInt = 4096
BY DEF Timing!BitValue, Timing!UInt, Timing!Width

\* A number has no bits above its width.
LEMMA NarrowBits ==
  ASSUME NEW w \in 0..11, NEW x \in Nat, x < Timing!BitValue(w)
  PROVE  Timing!Bits(x) \subseteq 0..(w - 1)
<1> DEFINE Values == {1, 2, 4, 8, 16, 32, 64, 128, 256, 512, 1024, 2048}
<1>1. ASSUME NEW y \in Values, x < y PROVE (x \div y) % 2 = 0
  BY <1>1
<1>2. ASSUME NEW b \in 0..11, w <= b PROVE (x \div Timing!BitValue(b)) % 2 = 0
  <2>1. /\ Timing!BitValue(w) <= Timing!BitValue(b)
        /\ Timing!BitValue(b) \in Values /\ Timing!BitValue(w) \in Values
    BY <1>2, BitValues
  <2> QED BY <1>1, <2>1
<1> QED BY <1>2 DEF Timing!Bits, Timing!Width

\* The bits of the widest sjw, and of a sum.
LEMMA AllOnes == Timing!Bits(3) = 0..1 /\ Timing!Bits(127) = 0..6
<1>1. \A b \in 0..11 : (3 \div Timing!BitValue(b)) % 2 = 1 <=> b \in 0..1
  BY BitValues
<1>2. \A b \in 0..11 : (127 \div Timing!BitValue(b)) % 2 = 1 <=> b \in 0..6
  BY BitValues
<1> QED BY <1>1, <1>2 DEF Timing!Bits, Timing!Width

\* A field lies in the register; another one lies beside it.
IsField(field) == field.pos \in Nat /\ field.width \in Nat /\ field.pos + field.width <= 32
Beside(f, g) == f.pos + f.width <= g.pos \/ g.pos + g.width <= f.pos

\* The bits of a value that a field shows, shifted there by either driver: the
\* value itself if it fits, and nothing in any other field.
LEMMA Narrow ==
  ASSUME NEW f, IsField(f), NEW x, Timing!Bits(x) \subseteq 0..(f.width - 1)
  PROVE  /\ Timing!Found(Timing!Shifted(x, f), f) = Timing!Bits(x)
         /\ Timing!Found(Timing!Masked(x, f), f) = Timing!Bits(x)
         /\ \A g : IsField(g) /\ Beside(f, g) =>
              Timing!Found(Timing!Shifted(x, f), g) = {} /\ Timing!Found(Timing!Masked(x, f), g) = {}
BY DEF IsField, Beside, Timing!Found, Timing!Shifted, Timing!Masked

\* All 32 bits of -1: the field is filled.
LEMMA Filled ==
  ASSUME NEW f, IsField(f)
  PROVE  /\ Timing!Found(Timing!Masked(0 - 1, f), f) = 0..(f.width - 1)
         /\ f.pos + f.width = 32 => Timing!Found(Timing!Shifted(0 - 1, f), f) = 0..(f.width - 1)
         /\ \A g : IsField(g) /\ Beside(f, g) =>
              /\ Timing!Found(Timing!Masked(0 - 1, f), g) = {}
              /\ f.pos + f.width = 32 => Timing!Found(Timing!Shifted(0 - 1, f), g) = {}
<1>1. Timing!Bits(0 - 1) = 0..31
  BY DEF Timing!Bits
<1>2. Timing!Shifted(0 - 1, f) = f.pos..31
  <2>1. \A n : n \in {b + f.pos : b \in 0..31} \cap (0..31) <=> n \in f.pos..31
    <3>1. ASSUME NEW n \in f.pos..31 PROVE n \in {b + f.pos : b \in 0..31}
      <4>1. n - f.pos \in 0..31 /\ n = (n - f.pos) + f.pos
        BY DEF IsField
      <4> QED BY <4>1
    <3> QED BY <3>1 DEF IsField
  <2> QED BY <1>1, <2>1 DEF Timing!Shifted
<1>3. Timing!Masked(0 - 1, f) = f.pos..(f.pos + f.width - 1)
  BY <1>2 DEF Timing!Masked, IsField
<1>4. Timing!Found(Timing!Masked(0 - 1, f), f) = 0..(f.width - 1)
  BY <1>3 DEF IsField, Timing!Found
<1>5. f.pos + f.width = 32 => Timing!Shifted(0 - 1, f) = Timing!Masked(0 - 1, f)
  BY <1>2, <1>3 DEF IsField
<1>6. ASSUME NEW g, IsField(g), Beside(f, g) PROVE Timing!Found(Timing!Masked(0 - 1, f), g) = {}
  <2>1. \A b \in 0..(g.width - 1) : g.pos + b \notin f.pos..(f.pos + f.width - 1)
    BY <1>6 DEF IsField, Beside
  <2> QED BY <1>3, <2>1 DEF Timing!Found
<1> QED BY <1>4, <1>5, <1>6

\* What goes into the register for a part, and what of it one field shows.
Piece(masked, x, f) == IF masked THEN Timing!Masked(x, f) ELSE Timing!Shifted(x, f)

\* A value the field has room for, or 0 where the bits of -1 do no harm.
Encodable(masked, v, f) ==
  \/ /\ v \in Nat /\ v > 0 /\ f.width \in 0..11
     /\ v - 1 < Timing!BitValue(f.width)
  \/ v = 0 /\ (masked \/ f.pos + f.width = 32)
Shown(v, f) == IF v = 0 THEN 0..(f.width - 1) ELSE Timing!Bits(v - 1)

LEMMA PieceShown ==
  ASSUME NEW masked \in BOOLEAN, NEW f, IsField(f), NEW v, Encodable(masked, v, f)
  PROVE  /\ Timing!Found(Piece(masked, v - 1, f), f) = Shown(v, f)
         /\ \A g : IsField(g) /\ Beside(f, g) => Timing!Found(Piece(masked, v - 1, f), g) = {}
<1>1. CASE v = 0
  BY <1>1, Filled DEF Piece, Shown, Encodable
<1>2. CASE v # 0
  <2>1. v - 1 \in Nat /\ f.width \in 0..11 /\ v - 1 < Timing!BitValue(f.width)
    BY <1>2 DEF Encodable
  <2>2. Timing!Bits(v - 1) \subseteq 0..(f.width - 1)
    BY <2>1, NarrowBits
  <2> QED BY <1>2, <2>2, Narrow DEF Piece, Shown
<1> QED BY <1>1, <1>2

\* Parts with values in fields of their own, and the register that shows each of
\* them there.
Laid(masked, Parts, field, value) ==
  /\ masked \in BOOLEAN
  /\ \A p \in Parts : IsField(field[p]) /\ Encodable(masked, value[p], field[p])
  /\ \A p, q \in Parts : p # q => Beside(field[p], field[q])
Register(masked, Parts, field, value) == UNION {Piece(masked, value[q] - 1, field[q]) : q \in Parts}

LEMMA RegisterShows ==
  ASSUME NEW masked, NEW Parts, NEW field, NEW value, Laid(masked, Parts, field, value), NEW p \in Parts
  PROVE  Timing!Found(Register(masked, Parts, field, value), field[p]) = Shown(value[p], field[p])
<1>1. ASSUME NEW q \in Parts, q # p PROVE Timing!Found(Piece(masked, value[q] - 1, field[q]), field[p]) = {}
  <2>1. IsField(field[q]) /\ Encodable(masked, value[q], field[q]) /\ IsField(field[p]) /\ Beside(field[q], field[p])
    BY <1>1 DEF Laid
  <2> QED BY <2>1, PieceShown DEF Laid
<1>2. Timing!Found(Piece(masked, value[p] - 1, field[p]), field[p]) = Shown(value[p], field[p])
  <2>1. masked \in BOOLEAN /\ IsField(field[p]) /\ Encodable(masked, value[p], field[p])
    BY DEF Laid
  <2> QED BY <2>1, PieceShown
<1> QED BY <1>1, <1>2 DEF Timing!Found, Register

\* Bit timings of any values.
Requests == [prop_seg : 0..(Timing!UInt - 1), phase_seg1 : 0..(Timing!UInt - 1),
             phase_seg2 : 0..(Timing!UInt - 1), sjw : 0..(Timing!UInt - 1), brp : 0..(Timing!UInt - 1)]

\* What m_can_set_bittiming and can_drv_enable encode, and what the host asked for.
Value(c, bt) == [sjw |-> bt.sjw, tseg2 |-> bt.phase_seg2, brp |-> bt.brp,
                 tseg1 |-> IF c.masked THEN Timing!Tseg1(bt) ELSE Timing!Tseg1(bt) % Timing!BitValue(8)]
Want(c, bt)  == [sjw |-> IF bt.sjw = 0 THEN c.sjwMax ELSE bt.sjw, tseg1 |-> Timing!Tseg1(bt),
                 tseg2 |-> bt.phase_seg2, brp |-> bt.brp]

\* A part is encoded by a value that its field has room for, and the field shows it.
PartFits(masked, v, wanted, f) == Encodable(masked, v, f) /\ Shown(v, f) = Timing!Bits(wanted - 1)

\* A field of w bits has room for the values up to 2^w, one less is encoded.
HasRoom(w, v) == w \in 1..11 /\ v \in 1..Timing!BitValue(w)

LEMMA Fits ==
  ASSUME NEW masked, NEW pos, NEW w, NEW v, HasRoom(w, v)
  PROVE  PartFits(masked, v, v, Timing!Field(pos, w))
<1>1. Timing!BitValue(w) \in Nat
  BY BitValues DEF HasRoom
<1>2. Timing!Field(pos, w).width = w
  BY DEF Timing!Field
<1> QED BY <1>1, <1>2 DEF HasRoom, PartFits, Encodable, Shown

\* The parts of a bit timing that can_check_bittiming_ok accepts.
AllFit(c, sjw, tseg1, tseg2, brp) ==
  /\ PartFits(c.masked, sjw, IF sjw = 0 THEN c.sjwMax ELSE sjw, c.field["sjw"])
  /\ PartFits(c.masked, IF c.masked THEN tseg1 ELSE tseg1 % Timing!BitValue(8), tseg1, c.field["tseg1"])
  /\ PartFits(c.masked, tseg2, tseg2, c.field["tseg2"])
  /\ PartFits(c.masked, brp, brp, c.field["brp"])

LEMMA BxCanFits ==
  ASSUME NEW sjw \in 0..4, NEW tseg1 \in 1..16, NEW tseg2 \in 1..8, NEW brp \in 1..1024
  PROVE  AllFit(Timing!BxCan, sjw, tseg1, tseg2, brp)
<1> DEFINE c == Timing!BxCan
<1>1. /\ c.masked = TRUE /\ c.sjwMax = 4
      /\ c.field["sjw"] = Timing!Field(24, 2) /\ c.field["tseg1"] = Timing!Field(16, 4)
      /\ c.field["tseg2"] = Timing!Field(20, 3) /\ c.field["brp"] = Timing!Field(0, 10)
  BY DEF Timing!BxCan
<1>2. PartFits(TRUE, sjw, IF sjw = 0 THEN 4 ELSE sjw, Timing!Field(24, 2))
  <2>1. CASE sjw = 0
    <3>1. Timing!Field(24, 2).width = 2
      BY DEF Timing!Field
    <3>2. Encodable(TRUE, 0, Timing!Field(24, 2))
      BY DEF Encodable
    <3>3. Shown(0, Timing!Field(24, 2)) = Timing!Bits(4 - 1)
      <4>1. Shown(0, Timing!Field(24, 2)) = 0..1
        BY <3>1 DEF Shown
      <4>2. 4 - 1 = 3
        OBVIOUS
      <4> QED BY <4>1, <4>2, AllOnes
    <3> QED BY <2>1, <3>2, <3>3 DEF PartFits
  <2>2. CASE sjw # 0
    <3>1. HasRoom(2, sjw)
      BY <2>2, BitValues DEF HasRoom
    <3> QED BY <2>2, <3>1, Fits
  <2> QED BY <2>1, <2>2
<1>3. PartFits(TRUE, tseg1, tseg1, Timing!Field(16, 4))
  <2>1. HasRoom(4, tseg1)
    BY BitValues DEF HasRoom
  <2> QED BY <2>1, Fits
<1>4. PartFits(TRUE, tseg2, tseg2, Timing!Field(20, 3))
  <2>1. HasRoom(3, tseg2)
    BY BitValues DEF HasRoom
  <2> QED BY <2>1, Fits
<1>5. PartFits(TRUE, brp, brp, Timing!Field(0, 10))
  <2>1. HasRoom(10, brp)
    BY BitValues DEF HasRoom
  <2> QED BY <2>1, Fits
<1> HIDE DEF c
<1>6. AllFit(c, sjw, tseg1, tseg2, brp)
  BY <1>1, <1>2, <1>3, <1>4, <1>5 DEF AllFit
<1> QED BY <1>6 DEF c

LEMMA MCanNominalFits ==
  ASSUME NEW sjw \in 0..128, NEW tseg1 \in 1..255, NEW tseg2 \in 1..128, NEW brp \in 1..512
  PROVE  AllFit(Timing!MCanNominal, sjw, tseg1, tseg2, brp)
<1> DEFINE c == Timing!MCanNominal
<1>1. /\ c.masked = FALSE /\ c.sjwMax = 128
      /\ c.field["sjw"] = Timing!Field(25, 7) /\ c.field["tseg1"] = Timing!Field(8, 8)
      /\ c.field["tseg2"] = Timing!Field(0, 7) /\ c.field["brp"] = Timing!Field(16, 9)
  BY DEF Timing!MCanNominal
<1>2. PartFits(FALSE, sjw, IF sjw = 0 THEN 128 ELSE sjw, Timing!Field(25, 7))
  <2>1. CASE sjw = 0
    <3>1. Timing!Field(25, 7).width = 7 /\ Timing!Field(25, 7).pos = 25
      BY DEF Timing!Field
    <3>2. Encodable(FALSE, 0, Timing!Field(25, 7))
      BY <3>1 DEF Encodable
    <3>3. Shown(0, Timing!Field(25, 7)) = Timing!Bits(128 - 1)
      <4>1. Shown(0, Timing!Field(25, 7)) = 0..6
        BY <3>1 DEF Shown
      <4>2. 128 - 1 = 127
        OBVIOUS
      <4> QED BY <4>1, <4>2, AllOnes
    <3> QED BY <2>1, <3>2, <3>3 DEF PartFits
  <2>2. CASE sjw # 0
    <3>1. HasRoom(7, sjw)
      BY <2>2, BitValues DEF HasRoom
    <3> QED BY <2>2, <3>1, Fits
  <2> QED BY <2>1, <2>2
<1>3. PartFits(FALSE, tseg1 % Timing!BitValue(8), tseg1, Timing!Field(8, 8))
  <2>1. tseg1 % Timing!BitValue(8) = tseg1 /\ HasRoom(8, tseg1)
    BY BitValues DEF HasRoom
  <2>2. PartFits(FALSE, tseg1, tseg1, Timing!Field(8, 8))
    BY <2>1, Fits
  <2> QED BY <2>1, <2>2
<1>4. PartFits(FALSE, tseg2, tseg2, Timing!Field(0, 7))
  <2>1. HasRoom(7, tseg2)
    BY BitValues DEF HasRoom
  <2> QED BY <2>1, Fits
<1>5. PartFits(FALSE, brp, brp, Timing!Field(16, 9))
  <2>1. HasRoom(9, brp)
    BY BitValues DEF HasRoom
  <2> QED BY <2>1, Fits
<1> HIDE DEF c
<1>6. AllFit(c, sjw, tseg1, tseg2, brp)
  BY <1>1, <1>2, <1>3, <1>4, <1>5 DEF AllFit
<1> QED BY <1>6 DEF c

LEMMA MCanDataFits ==
  ASSUME NEW sjw \in 1..16, NEW tseg1 \in 1..32, NEW tseg2 \in 1..16, NEW brp \in 1..32
  PROVE  AllFit(Timing!MCanData, sjw, tseg1, tseg2, brp)
<1> DEFINE c == Timing!MCanData
<1>1. /\ c.masked = FALSE
      /\ c.field["sjw"] = Timing!Field(0, 4) /\ c.field["tseg1"] = Timing!Field(8, 5)
      /\ c.field["tseg2"] = Timing!Field(4, 4) /\ c.field["brp"] = Timing!Field(16, 5)
  BY DEF Timing!MCanData
<1>2. PartFits(FALSE, sjw, sjw, Timing!Field(0, 4))
  <2>1. HasRoom(4, sjw)
    BY BitValues DEF HasRoom
  <2> QED BY <2>1, Fits
<1>3. PartFits(FALSE, tseg1 % Timing!BitValue(8), tseg1, Timing!Field(8, 5))
  <2>1. tseg1 % Timing!BitValue(8) = tseg1 /\ HasRoom(5, tseg1)
    BY BitValues DEF HasRoom
  <2>2. PartFits(FALSE, tseg1, tseg1, Timing!Field(8, 5))
    BY <2>1, Fits
  <2> QED BY <2>1, <2>2
<1>4. PartFits(FALSE, tseg2, tseg2, Timing!Field(4, 4))
  <2>1. HasRoom(4, tseg2)
    BY BitValues DEF HasRoom
  <2> QED BY <2>1, Fits
<1>5. PartFits(FALSE, brp, brp, Timing!Field(16, 5))
  <2>1. HasRoom(5, brp)
    BY BitValues DEF HasRoom
  <2> QED BY <2>1, Fits
<1> HIDE DEF c
<1>6. AllFit(c, sjw, tseg1, tseg2, brp)
  <2>1. sjw # 0
    OBVIOUS
  <2> QED BY <1>1, <1>2, <1>3, <1>4, <1>5, <2>1 DEF AllFit
<1> QED BY <1>6 DEF c

\* The check leaves values that fit.
RequestTypes(bt) ==
  /\ bt.prop_seg \in Nat /\ bt.phase_seg1 \in Nat /\ bt.phase_seg2 \in Nat
  /\ bt.sjw \in Nat /\ bt.brp \in Nat

LEMMA RequestsTyped == ASSUME NEW bt \in Requests PROVE RequestTypes(bt)
<1> DEFINE U == 0..(Timing!UInt - 1)
<1>1. bt \in [prop_seg : U, phase_seg1 : U, phase_seg2 : U, sjw : U, brp : U]
  BY DEF Requests
<1>2. U \subseteq Nat
  BY BitValues
<1> HIDE DEF U
<1>3. bt.prop_seg \in U /\ bt.phase_seg1 \in U /\ bt.phase_seg2 \in U /\ bt.sjw \in U /\ bt.brp \in U
  BY <1>1
<1> QED BY <1>2, <1>3 DEF RequestTypes

LEMMA AcceptedFits ==
  ASSUME NEW c \in Timing!Controllers, NEW bt, RequestTypes(bt),
         Timing!CheckBittimingOk(c, bt), ~Timing!Unencodable(c, bt)
  PROVE  AllFit(c, bt.sjw, Timing!Tseg1(bt), bt.phase_seg2, bt.brp)
<1>1. /\ bt.sjw \in 0..c.sjwMax /\ Timing!Tseg1(bt) \in 1..c.tseg1Max
      /\ bt.phase_seg2 \in 1..c.tseg2Max /\ bt.brp \in 1..c.brpMax
  BY DEF RequestTypes, Timing!CheckBittimingOk
<1> DEFINE sjw == bt.sjw
           tseg1 == Timing!Tseg1(bt)
           tseg2 == bt.phase_seg2
           brp == bt.brp
<1>2. ~(c = Timing!MCanNominal /\ tseg1 = 256) /\ ~(c = Timing!MCanData /\ sjw = 0)
  BY DEF Timing!Unencodable
<1>3. /\ sjw \in 0..c.sjwMax /\ tseg1 \in 1..c.tseg1Max
      /\ tseg2 \in 1..c.tseg2Max /\ brp \in 1..c.brpMax
  BY <1>1
<1> HIDE DEF sjw, tseg1, tseg2, brp
<1>4. CASE c = Timing!BxCan
  <2>1. c.sjwMax = 4 /\ c.tseg1Max = 16 /\ c.tseg2Max = 8 /\ c.brpMax = 1024
    BY <1>4 DEF Timing!BxCan
  <2>2. sjw \in 0..4 /\ tseg1 \in 1..16 /\ tseg2 \in 1..8 /\ brp \in 1..1024
    BY <1>3, <2>1
  <2>3. AllFit(Timing!BxCan, sjw, tseg1, tseg2, brp)
    BY <2>2, BxCanFits, ZenonT(60)
  <2> QED BY <1>4, <2>3 DEF sjw, tseg1, tseg2, brp
<1>5. CASE c = Timing!MCanNominal
  <2>1. c.sjwMax = 128 /\ c.tseg1Max = 256 /\ c.tseg2Max = 128 /\ c.brpMax = 512
    BY <1>5 DEF Timing!MCanNominal
  <2>2. sjw \in 0..128 /\ tseg1 \in 1..256 /\ tseg1 # 256 /\ tseg2 \in 1..128 /\ brp \in 1..512
    BY <1>2, <1>3, <1>5, <2>1
  <2>3. tseg1 \in 1..255
    BY <2>2
  <2>4. AllFit(Timing!MCanNominal, sjw, tseg1, tseg2, brp)
    BY <2>2, <2>3, MCanNominalFits, ZenonT(60)
  <2> QED BY <1>5, <2>4 DEF sjw, tseg1, tseg2, brp
<1>6. CASE c = Timing!MCanData
  <2>1. c.sjwMax = 16 /\ c.tseg1Max = 32 /\ c.tseg2Max = 16 /\ c.brpMax = 32
    BY <1>6 DEF Timing!MCanData
  <2>2. sjw \in 0..16 /\ sjw # 0 /\ tseg1 \in 1..32 /\ tseg2 \in 1..16 /\ brp \in 1..32
    BY <1>2, <1>3, <1>6, <2>1
  <2>3. sjw \in 1..16
    BY <2>2
  <2>4. AllFit(Timing!MCanData, sjw, tseg1, tseg2, brp)
    BY <2>2, <2>3, MCanDataFits, ZenonT(60)
  <2> QED BY <1>6, <2>4 DEF sjw, tseg1, tseg2, brp
<1> QED BY <1>4, <1>5, <1>6 DEF Timing!Controllers

\* What the hardware finds in its register is what the host asked for, for every
\* timing that passes can_check_bittiming_ok, except what m_can.c cannot encode.
LEMMA AcceptedApplied ==
  ASSUME NEW c \in Timing!Controllers, NEW bt, RequestTypes(bt),
         Timing!CheckBittimingOk(c, bt), ~Timing!Unencodable(c, bt)
  PROVE  Timing!Applied(c, bt)
<1>1. Timing!TimingRegister(c, bt) = Register(c.masked, Timing!Parts, c.field, Value(c, bt))
  BY DEF Timing!TimingRegister, Register, Piece, Value
<1>2. /\ c.masked \in BOOLEAN
      /\ \A p \in Timing!Parts : IsField(c.field[p])
      /\ \A p, q \in Timing!Parts : p # q => Beside(c.field[p], c.field[q])
  <2>1. CASE c = Timing!BxCan
    BY <2>1 DEF Timing!BxCan, Timing!Field, Timing!Parts, IsField, Beside
  <2>2. CASE c = Timing!MCanNominal
    BY <2>2 DEF Timing!MCanNominal, Timing!Field, Timing!Parts, IsField, Beside
  <2>3. CASE c = Timing!MCanData
    BY <2>3 DEF Timing!MCanData, Timing!Field, Timing!Parts, IsField, Beside
  <2> QED BY <2>1, <2>2, <2>3 DEF Timing!Controllers
<1>3. \A p \in Timing!Parts : PartFits(c.masked, Value(c, bt)[p], Want(c, bt)[p], c.field[p])
  <2>1. AllFit(c, bt.sjw, Timing!Tseg1(bt), bt.phase_seg2, bt.brp)
    BY AcceptedFits
  <2> QED BY <2>1 DEF AllFit, Value, Want, Timing!Parts
<1>4. Laid(c.masked, Timing!Parts, c.field, Value(c, bt))
  BY <1>2, <1>3 DEF PartFits, Laid
<1>5. ASSUME NEW p \in Timing!Parts
      PROVE  Timing!Found(Timing!TimingRegister(c, bt), c.field[p]) = Timing!Bits(Want(c, bt)[p] - 1)
  <2>1. Timing!Found(Register(c.masked, Timing!Parts, c.field, Value(c, bt)), c.field[p]) = Shown(Value(c, bt)[p], c.field[p])
    <3> DEFINE masked == c.masked
               field == c.field
               value == Value(c, bt)
               parts == Timing!Parts
    <3>1. Laid(masked, parts, field, value) /\ p \in parts
      BY <1>4
    <3> HIDE DEF masked, field, value, parts
    <3>2. Timing!Found(Register(masked, parts, field, value), field[p]) = Shown(value[p], field[p])
      BY <3>1, RegisterShows
    <3> QED BY <3>2 DEF masked, field, value, parts
  <2>2. Shown(Value(c, bt)[p], c.field[p]) = Timing!Bits(Want(c, bt)[p] - 1)
    BY <1>3 DEF PartFits
  <2> QED BY <1>1, <2>1, <2>2
<1> QED BY <1>5 DEF Timing!Applied, Want

\* So is every timing of 12-bit fields, not only those around the limits.
THEOREM TimingsApplied ==
  \A c \in Timing!Controllers, bt \in Requests :
     Timing!CheckBittimingOk(c, bt) /\ ~Timing!Unencodable(c, bt) => Timing!Applied(c, bt)
<1> SUFFICES ASSUME NEW c \in Timing!Controllers, NEW bt \in Requests,
                    Timing!CheckBittimingOk(c, bt), ~Timing!Unencodable(c, bt)
             PROVE  Timing!Applied(c, bt)
  OBVIOUS
<1>1. RequestTypes(bt)
  BY RequestsTyped
<1> QED BY <1>1, AcceptedApplied

\* Offset and filter of a compensation in their register.
LEMMA TdcRegisterShows ==
  ASSUME NEW tdc, tdc.tdco \in 0..Timing!TdcoMax, tdc.tdcf \in 0..Timing!TdcfMax
  PROVE  /\ Timing!Found(Timing!TdcRegister(tdc), Timing!TDCO) = Timing!Bits(tdc.tdco)
         /\ Timing!Found(Timing!TdcRegister(tdc), Timing!TDCF) = Timing!Bits(tdc.tdcf)
<1>1. Timing!Bits(tdc.tdco) \subseteq 0..6 /\ Timing!Bits(tdc.tdcf) \subseteq 0..6
  BY NarrowBits, BitValues DEF Timing!TdcoMax, Timing!TdcfMax
<1>2. /\ IsField(Timing!TDCO) /\ IsField(Timing!TDCF)
      /\ Beside(Timing!TDCO, Timing!TDCF) /\ Beside(Timing!TDCF, Timing!TDCO)
      /\ Timing!TDCO.width = 7 /\ Timing!TDCF.width = 7
  BY DEF IsField, Beside, Timing!TDCO, Timing!TDCF, Timing!Field
<1>3. /\ Timing!Found(Timing!Shifted(tdc.tdco, Timing!TDCO), Timing!TDCO) = Timing!Bits(tdc.tdco)
      /\ Timing!Found(Timing!Shifted(tdc.tdco, Timing!TDCO), Timing!TDCF) = {}
      /\ Timing!Found(Timing!Shifted(tdc.tdcf, Timing!TDCF), Timing!TDCF) = Timing!Bits(tdc.tdcf)
      /\ Timing!Found(Timing!Shifted(tdc.tdcf, Timing!TDCF), Timing!TDCO) = {}
  BY <1>1, <1>2, Narrow
<1> QED BY <1>3 DEF Timing!TdcRegister, Timing!Found

\* Every compensation that passes can_check_tdc_ok is what the hardware finds.
LEMMA CheckedTdcFound ==
  ASSUME NEW tdc, tdc.tdcv \in Nat, tdc.tdco \in Nat, tdc.tdcf \in Nat, Timing!CheckTdcOk(tdc)
  PROVE  Timing!TdcFound(tdc)
<1>1. tdc.tdco \in 0..Timing!TdcoMax /\ tdc.tdcf \in 0..Timing!TdcfMax /\ tdc.tdcv = 0
  BY DEF Timing!CheckTdcOk, Timing!TdcoMax, Timing!TdcfMax, Timing!TdcvMax
<1>2. PICK m \in Timing!TdcModes : tdc.mode = {m}
  BY DEF Timing!CheckTdcOk
<1>3. m \in {"off", "auto"} /\ (m = "auto" => tdc.tdco # 0)
  BY <1>1, <1>2 DEF Timing!CheckTdcOk, Timing!TdcModes
<1> QED BY <1>1, <1>2, <1>3, TdcRegisterShows DEF Timing!TdcFound, Timing!TdcEnabled

\* So is every compensation that can_calc_tdco calculates for an accepted data bit
\* timing, and it is the sample point.
LEMMA CalculatedTdcFound ==
  ASSUME NEW bt, RequestTypes(bt), Timing!CheckBittimingOk(Timing!MCanData, bt),
         NEW tdcf \in 0..Timing!TdcfMax, NEW tdc, tdc = Timing!CalcTdco(bt, tdcf)
  PROVE  Timing!TdcFound(tdc) /\ (Timing!TdcEnabled(tdc) => tdc.tdco = Timing!SamplePoint(bt))
<1>1. bt.prop_seg \in Nat /\ bt.phase_seg1 \in Nat
  BY DEF RequestTypes
<1>2. (bt.prop_seg + bt.phase_seg1) % 4096 \in 1..32
  BY BitValues DEF Timing!CheckBittimingOk, Timing!MCanData, Timing!Tseg1
<1>3. (1 + bt.prop_seg + bt.phase_seg1) % 4096 \in 2..33
  <2>1. ASSUME NEW m \in Nat, NEW n \in Nat, (m + n) % 4096 \in 1..32 PROVE (1 + m + n) % 4096 \in 2..33
    BY <2>1
  <2> QED BY <1>1, <1>2, <2>1
<1>4. CASE bt.brp \in {1, 2}
  <2>1. Timing!SamplePoint(bt) \in 1..66
    BY <1>3, <1>4, BitValues DEF Timing!SamplePoint
  <2>2. Timing!Min({Timing!SamplePoint(bt), 127}) = Timing!SamplePoint(bt)
    BY <2>1 DEF Timing!Min
  <2>3. tdc = [mode |-> {"auto"}, tdcv |-> 0, tdco |-> Timing!SamplePoint(bt), tdcf |-> tdcf]
    BY <1>4, <2>2 DEF Timing!CalcTdco, Timing!TdcoMax
  <2>4. tdc.mode = {"auto"} /\ tdc.tdco = Timing!SamplePoint(bt) /\ tdc.tdcf = tdcf
    BY <2>3
  <2>5. tdc.tdco \in 0..Timing!TdcoMax /\ tdc.tdcf \in 0..Timing!TdcfMax /\ tdc.tdco # 0
    BY <2>1, <2>4 DEF Timing!TdcoMax
  <2> QED BY <2>4, <2>5, TdcRegisterShows DEF Timing!TdcFound, Timing!TdcEnabled
<1>5. CASE bt.brp \notin {1, 2}
  BY <1>5 DEF Timing!CalcTdco, Timing!TdcFound, Timing!TdcEnabled
<1> QED BY <1>4, <1>5

\* The timings of the run are among them.
LEMMA TimingsTyped ==
  ASSUME NEW c \in Timing!Controllers, NEW bt \in Timing!Timings(c)
  PROVE  RequestTypes(bt)
<1>1. c.tseg1Max \in Nat \ {0} /\ c.tseg2Max \in Nat /\ c.sjwMax \in Nat /\ c.brpMax \in Nat
  <2>1. CASE c = Timing!BxCan
    BY <2>1 DEF Timing!BxCan
  <2>2. CASE c = Timing!MCanNominal
    BY <2>2 DEF Timing!MCanNominal
  <2>3. CASE c = Timing!MCanData
    BY <2>3 DEF Timing!MCanData
  <2> QED BY <2>1, <2>2, <2>3 DEF Timing!Controllers
<1> DEFINE Around(max) == {0, 1, max, max + 1}
           prop_segs == {0, 1, Timing!UInt - 1}
           phase_seg1s == Around(c.tseg1Max) \cup {2, c.tseg1Max - 1}
           phase_seg2s == Around(c.tseg2Max)
           sjws == Around(c.sjwMax)
           brps == Around(c.brpMax) \cup {2, 3}
<1>2. bt \in [prop_seg : prop_segs, phase_seg1 : phase_seg1s, phase_seg2 : phase_seg2s, sjw : sjws, brp : brps]
  BY DEF Timing!Timings
<1>3. prop_segs \subseteq Nat /\ phase_seg1s \subseteq Nat /\ phase_seg2s \subseteq Nat /\ sjws \subseteq Nat /\ brps \subseteq Nat
  BY <1>1, BitValues
<1> HIDE DEF prop_segs, phase_seg1s, phase_seg2s, sjws, brps
<1>4. /\ bt.prop_seg \in prop_segs /\ bt.phase_seg1 \in phase_seg1s /\ bt.phase_seg2 \in phase_seg2s
      /\ bt.sjw \in sjws /\ bt.brp \in brps
  BY <1>2
<1> QED BY <1>3, <1>4 DEF RequestTypes

LEMMA TimingSample ==
  ASSUME sample \in Samples("timing")
  PROVE  sample.ctrl \in Timing!Controllers /\ RequestTypes(sample.bt)
<1>1. PICK c \in Timing!Controllers : sample \in [ctrl : {c}, bt : Timing!Timings(c)]
  BY DEF Samples
<1>2. sample.ctrl = c /\ sample.bt \in Timing!Timings(c)
  BY <1>1
<1> QED BY <1>2, TimingsTyped

\* What passes can_check_bittiming_ok is what the controller runs with.
THEOREM TimingAppliedCorrect == UnitsSpec => []TimingApplied
<1>1. sample \in Samples(unit) => TimingApplied
  <2> SUFFICES ASSUME sample \in Samples("timing"), Timing!CheckBittimingOk(sample.ctrl, sample.bt),
                      ~Timing!Unencodable(sample.ctrl, sample.bt)
               PROVE  Timing!Applied(sample.ctrl, sample.bt)
    BY DEF TimingApplied
  <2> QED BY TimingSample, AcceptedApplied
<1> QED BY <1>1, SamplesKept, PTL

\* What passes can_check_tdc_ok, or is calculated for an accepted data bit timing,
\* is the compensation the controller runs with.
THEOREM TdcAppliedCorrect == UnitsSpec => []TdcApplied
<1>1. sample \in Samples(unit) => TdcApplied
  <2> SUFFICES ASSUME sample \in Samples(unit) PROVE TdcApplied
    OBVIOUS
  <2>1. ASSUME unit = "tdc", Timing!CheckTdcOk(sample) PROVE Timing!TdcFound(sample)
    <3>1. sample \in Timing!Tdcs
      BY <2>1 DEF Samples
    <3>2. sample.tdcv \in Nat /\ sample.tdco \in Nat /\ sample.tdcf \in Nat
      BY <3>1 DEF Timing!Tdcs, Timing!TdcoMax, Timing!TdcfMax
    <3> QED BY <2>1, <3>2, CheckedTdcFound
  <2>2. ASSUME unit = "timing", sample.ctrl = Timing!MCanData, Timing!CheckBittimingOk(sample.ctrl, sample.bt),
               NEW tdcf \in {0, Timing!TdcfMax}, NEW tdc, tdc = Timing!CalcTdco(sample.bt, tdcf)
        PROVE  Timing!TdcFound(tdc) /\ (Timing!TdcEnabled(tdc) => tdc.tdco = Timing!SamplePoint(sample.bt))
    <3>1. RequestTypes(sample.bt) /\ Timing!CheckBittimingOk(Timing!MCanData, sample.bt)
      BY <2>2, TimingSample
    <3>2. tdcf \in 0..Timing!TdcfMax
      BY DEF Timing!TdcfMax
    <3> DEFINE bt == sample.bt
    <3>3. RequestTypes(bt) /\ Timing!CheckBittimingOk(Timing!MCanData, bt) /\ tdc = Timing!CalcTdco(bt, tdcf)
      BY <2>2, <3>1
    <3> HIDE DEF bt
    <3>4. Timing!TdcFound(tdc) /\ (Timing!TdcEnabled(tdc) => tdc.tdco = Timing!SamplePoint(bt))
      BY <3>2, <3>3, CalculatedTdcFound
    <3> QED BY <3>4 DEF bt
  <2> QED BY <2>1, <2>2 DEF TdcApplied
<1> QED BY <1>1, SamplesKept, PTL

-----------------------------------------------------------------------------
(* The deadline of a recovery. *)

USE HalfAssumption

\* A deadline d ticks ahead, seen n ticks later.
LEMMA Distance ==
  ASSUME NEW from \in Word, NEW d \in Nat, d < Half, NEW n \in Nat, n <= Half
  PROVE  TimeAfter(Plus(from, n), Plus(from, d)) <=> n > d
BY DEF TimeAfter, Plus, Minus, Word

\* A scheduled recovery is pending in time: whatever the tick it is scheduled at,
\* for every delay and every time up to half the range of the counter.
THEOREM RestartInTimeCorrect == RestartInTime
<1> SUFFICES ASSUME NEW t \in Word, NEW delay \in 0..(Half - 2), NEW elapsed \in 0..Half
             PROVE  DueInTime(t, delay, elapsed)
  BY DEF RestartInTime
<1>0. delay \in Nat /\ delay < Half - 1 /\ elapsed \in Nat /\ elapsed <= Half
  OBVIOUS
<1> DEFINE d == IF Plus(t, delay) = 0 THEN delay + 1 ELSE delay
<1>1. d \in Nat /\ d < Half /\ delay <= d /\ d <= delay + 1
  BY <1>0
<1>2. Schedule(t, delay) = Plus(t, d)
  BY <1>0 DEF Schedule, Plus, Word
<1>3. Schedule(t, delay) # 0
  BY DEF Schedule
<1>4. TimeAfter(Plus(t, elapsed), Schedule(t, delay)) <=> elapsed > d
  <2> HIDE DEF d
  <2> QED BY <1>0, <1>1, <1>2, Distance
<1>5. Pending(Schedule(t, delay), Plus(t, elapsed)) <=> elapsed > d
  BY <1>3, <1>4 DEF Pending
<1> HIDE DEF d
<1> QED BY <1>0, <1>1, <1>3, <1>5 DEF DueInTime

-----------------------------------------------------------------------------
(* The sequence. *)

\* What the steps of led_update_sequence rely on when IDENTIFY has set
\* sequence_step to 0 in between: it is what they have stored, or 0.
SequenceInv ==
  /\ step \in 0..Led!EndOfSequence /\ loaded \in 0..Led!EndOfSequence
  /\ pc \in {"idle", "switch", "load", "store", "end"}
  /\ pc \in {"idle", "switch", "load"} => step < Led!EndOfSequence
  /\ pc = "end" => step \in {0, loaded}

\* The main loop never reads beyond led_identify_seq, whatever the interrupt does
\* to sequence_step between its accesses.
LEMMA LedStepInSequence == Led!Spec => []Led!StepInSequence
<1>1. Led!Init => SequenceInv
  BY DEF Led!Init, SequenceInv, Led!EndOfSequence
<1>2. SequenceInv /\ [Led!Next]_Led!vars => SequenceInv'
  <2> SUFFICES ASSUME SequenceInv, [Led!Next]_Led!vars PROVE SequenceInv'
    OBVIOUS
  <2> USE DEF SequenceInv, Led!EndOfSequence
  <2>1. CASE Led!Update \/ Led!UpdateOther
    BY <2>1 DEF Led!Update, Led!UpdateOther, Led!sequenceVars, Led!loopVars
  <2>2. CASE Led!SwitchOff \/ Led!SwitchNormal \/ Led!SwitchSequence
    BY <2>2 DEF Led!SwitchOff, Led!SwitchNormal, Led!SwitchSequence, Led!sequenceVars
  <2>3. CASE Led!LoadStep
    BY <2>3 DEF Led!LoadStep, Led!sequenceVars
  <2>4. CASE Led!StoreStep
    BY <2>4 DEF Led!StoreStep, Led!SetStep
  <2>5. CASE Led!EndStep
    BY <2>5 DEF Led!EndStep, Led!SetStep
  <2>6. CASE Led!Indicate \/ Led!Tick
    BY <2>6 DEF Led!Indicate, Led!Tick, Led!sequenceVars, Led!loopVars
  <2>7. CASE Led!Interrupt
    BY <2>7 DEF Led!Interrupt, Led!SetMode, Led!RunSequence, Led!SetStep, Led!sequenceVars, Led!loopVars
  <2>8. CASE UNCHANGED Led!vars
    BY <2>8 DEF Led!vars, Led!sequenceVars, Led!loopVars
  <2> QED BY <2>1, <2>2, <2>3, <2>4, <2>5, <2>6, <2>7, <2>8 DEF Led!Next
<1>3. SequenceInv => Led!StepInSequence
  BY DEF SequenceInv, Led!StepInSequence
<1> QED BY <1>1, <1>2, <1>3, PTL DEF Led!Spec

-----------------------------------------------------------------------------
(* Blinking. *)

USE BlinkAssumption

\* As long as the last blink is not Half ago, its dark time ends OffTime after it
\* began; offUntil is not compared with a tick further away than that.
BlinkClock ==
  /\ now \in Led!Word /\ offUntil \in Led!Word /\ since \in 0..Half
  /\ since < OffTime => Led!Minus(offUntil, now) = OffTime - since
  /\ OffTime <= since /\ since < Half => Led!Minus(now, offUntil) <= since - OffTime

BlinkInv == BlinkClock /\ fresh \in BOOLEAN /\ Led!DarkInBlink

\* The deadline compared with the clock says whether the dark time is over.
LEMMA DarkTime ==
  ASSUME BlinkInv, since < Half
  PROVE  Led!Passed(now, offUntil) <=> since >= OffTime
BY DEF BlinkInv, BlinkClock, Led!Passed, Led!Minus, Led!Word

\* A new blink begins with the LED dark.
LEMMA BlinkBegins ==
  ASSUME NEW t \in Led!Word
  PROVE  /\ Led!Plus(t, OffTime) \in Led!Word
         /\ Led!Minus(Led!Plus(t, OffTime), t) = OffTime
         /\ ~Led!Passed(t, Led!Plus(t, OffTime))
BY DEF Led!Passed, Led!Plus, Led!Minus, Led!Word

\* A tick.
LEMMA ClockGoesOn ==
  ASSUME NEW t \in Led!Word, NEW u \in Led!Word
  PROVE  /\ Led!Plus(t, 1) \in Led!Word
         /\ Led!Minus(u, t) > 0 => Led!Minus(u, Led!Plus(t, 1)) = Led!Minus(u, t) - 1
         /\ Led!Minus(u, t) = 1 => Led!Minus(Led!Plus(t, 1), u) = 0
         /\ Led!Minus(t, u) < Half => Led!Minus(Led!Plus(t, 1), u) = Led!Minus(t, u) + 1
         /\ Led!Minus(t, u) \in Nat
BY DEF Led!Plus, Led!Minus, Led!Word

\* What the blink depends on is left alone, and the pin too unless another mode
\* has written it.
LEMMA BlinkKept ==
  ASSUME BlinkInv, UNCHANGED <<now, offUntil, since>>,
         fresh' = FALSE \/ UNCHANGED <<lit, fresh>>
  PROVE  BlinkInv'
<1>1. BlinkClock'
  BY DEF BlinkInv, BlinkClock
<1>2. CASE fresh' = FALSE
  BY <1>1, <1>2 DEF BlinkInv, Led!DarkInBlink
<1>3. CASE UNCHANGED <<lit, fresh>>
  <2>1. fresh' = fresh /\ lit' = lit /\ since' = since
    BY <1>3
  <2>2. Led!DarkInBlink => Led!DarkInBlink'
    BY <2>1, Zenon DEF Led!DarkInBlink
  <2> QED BY <1>1, <2>1, <2>2 DEF BlinkInv
<1> QED BY <1>2, <1>3

\* Mode NORMAL.
LEMMA NormalUpdated ==
  ASSUME BlinkInv, Led!UpdateNormal, now' = now
  PROVE  BlinkInv'
<1>1. lit' \in BOOLEAN /\ fresh' = TRUE
  BY DEF Led!UpdateNormal, Led!Passed
<1>2. CASE UNCHANGED <<offUntil, onUntil, since>>
  <2>1. lit' = Led!Passed(now, offUntil)
    BY <1>2 DEF Led!UpdateNormal
  <2>2. since < Half => (lit' <=> since >= OffTime)
    BY <2>1, DarkTime
  <2>3. BlinkClock'
    BY <1>2 DEF BlinkInv, BlinkClock
  <2>4. Led!DarkInBlink'
    BY <1>2, <2>2 DEF Led!DarkInBlink
  <2> QED BY <1>1, <2>3, <2>4 DEF BlinkInv
<1>3. CASE offUntil' = Led!Plus(now, OffTime) /\ since' = 0
  <2>1. lit' = Led!Passed(now, Led!Plus(now, OffTime))
    BY <1>3 DEF Led!UpdateNormal
  <2>2. now \in Led!Word
    BY DEF BlinkInv, BlinkClock
  <2>3. ~lit'
    BY <2>1, <2>2, BlinkBegins
  <2>4. BlinkClock'
    BY <1>3, <2>2, BlinkBegins DEF BlinkClock
  <2>5. ~(since' >= OffTime)
    BY <1>3
  <2>6. Led!DarkInBlink'
    BY <2>3, <2>5 DEF Led!DarkInBlink
  <2> QED BY <1>1, <2>4, <2>6 DEF BlinkInv
<1> QED BY <1>2, <1>3 DEF Led!UpdateNormal

\* In mode NORMAL the LED is dark for OffTime after a blink begins and lit
\* afterwards, wherever the counter wraps around, until half its range has passed.
LEMMA LedDarkInBlink == Led!Spec => []Led!DarkInBlink
<1>1. Led!Init => BlinkInv
  <2> SUFFICES ASSUME Led!Init PROVE BlinkInv
    OBVIOUS
  <2>1. now = 0 /\ offUntil = 0 /\ since = OnTime /\ fresh = FALSE
    BY DEF Led!Init
  <2>2. BlinkClock
    BY <2>1 DEF BlinkClock, Led!Minus, Led!Word
  <2> QED BY <2>1, <2>2 DEF BlinkInv, Led!DarkInBlink
<1>2. BlinkInv /\ [Led!Next]_Led!vars => BlinkInv'
  <2> SUFFICES ASSUME BlinkInv, [Led!Next]_Led!vars PROVE BlinkInv'
    OBVIOUS
  <2>1. CASE \/ Led!Update \/ Led!UpdateOther \/ Led!SwitchOff \/ Led!SwitchSequence \/ Led!LoadStep
             \/ Led!StoreStep \/ Led!EndStep \/ Led!Indicate \/ Led!RunSequence \/ UNCHANGED Led!vars
    BY <2>1, BlinkKept DEF Led!Update, Led!UpdateOther, Led!SwitchOff, Led!Darken, Led!SwitchSequence,
      Led!LoadStep, Led!StoreStep, Led!SetStep, Led!EndStep, Led!Indicate, Led!RunSequence, Led!blinkVars, Led!loopVars,
      Led!sequenceVars, Led!vars
  <2>2. CASE Led!SwitchNormal
    BY <2>2, NormalUpdated DEF Led!SwitchNormal
  <2>3. ASSUME NEW m \in {"off", "normal"}, Led!SetMode(m) PROVE BlinkInv'
    <3>1. CASE Led!UpdateNormal
      BY <2>3, <3>1, NormalUpdated DEF Led!SetMode
    <3>2. CASE Led!Darken \/ UNCHANGED <<Led!blinkVars, lit, fresh>>
      BY <2>3, <3>2, BlinkKept DEF Led!SetMode, Led!Darken, Led!blinkVars, BlinkInv
    <3> QED BY <2>3, <3>1, <3>2 DEF Led!SetMode
  <2>4. CASE Led!Tick
    <3>1. /\ now' = Led!Plus(now, 1) /\ offUntil' = offUntil /\ fresh' = FALSE
          /\ since' = IF since < Half THEN since + 1 ELSE since
      BY <2>4 DEF Led!Tick
    <3>2. BlinkClock
      BY DEF BlinkInv
    <3>3. now' \in Led!Word /\ offUntil' \in Led!Word /\ since' \in 0..Half
      BY <3>1, <3>2, ClockGoesOn DEF BlinkClock
    <3>4. ASSUME since' < OffTime PROVE Led!Minus(offUntil, now)' = OffTime - since'
      <4>1. since' = since + 1 /\ since < OffTime /\ Led!Minus(offUntil, now) = OffTime - since
        BY <3>1, <3>2, <3>4 DEF BlinkClock
      <4>2. Led!Minus(offUntil, now) > 0
        BY <3>2, <4>1 DEF BlinkClock
      <4> QED BY <3>1, <3>2, <4>1, <4>2, ClockGoesOn DEF BlinkClock
    <3>5. ASSUME OffTime <= since', since' < Half PROVE Led!Minus(now, offUntil)' <= since' - OffTime
      <4>1. since' = since + 1
        BY <3>1, <3>2, <3>5 DEF BlinkClock
      <4>2. CASE OffTime <= since
        <5>1. Led!Minus(now, offUntil) <= since - OffTime /\ Led!Minus(now, offUntil) \in Nat
          BY <3>2, <3>5, <4>1, <4>2, ClockGoesOn DEF BlinkClock
        <5>2. Led!Minus(now, offUntil) < Half
          BY <3>2, <3>5, <4>1, <5>1 DEF BlinkClock
        <5>3. Led!Minus(now, offUntil)' = Led!Minus(now, offUntil) + 1
          BY <3>1, <3>2, <5>2, ClockGoesOn DEF BlinkClock
        <5> QED BY <3>2, <4>1, <5>1, <5>3 DEF BlinkClock
      <4>3. CASE since < OffTime
        <5>1. since + 1 = OffTime /\ Led!Minus(offUntil, now) = 1
          BY <3>2, <3>5, <4>1, <4>3 DEF BlinkClock
        <5>2. Led!Minus(now, offUntil)' = 0
          BY <3>1, <3>2, <5>1, ClockGoesOn DEF BlinkClock
        <5> QED BY <4>1, <5>1, <5>2
      <4> QED BY <3>2, <4>2, <4>3 DEF BlinkClock
    <3>6. BlinkClock'
      BY <3>3, <3>4, <3>5 DEF BlinkClock
    <3> QED BY <3>1, <3>6 DEF BlinkInv, Led!DarkInBlink
  <2> QED BY <2>1, <2>2, <2>3, <2>4 DEF Led!Next, Led!Interrupt
<1>3. BlinkInv => Led!DarkInBlink
  BY DEF BlinkInv
<1> QED BY <1>1, <1>2, <1>3, PTL DEF Led!Spec

-----------------------------------------------------------------------------
(* The properties of the instance. *)

\* The main loop never reads beyond led_identify_seq, whatever the interrupt does
\* to sequence_step between its accesses.
THEOREM StepInSequenceCorrect == UnitsSpec => []StepInSequence
BY PartsRun, LedStepInSequence, PTL DEF StepInSequence

\* In mode NORMAL the LED is dark for OffTime after a blink begins and lit
\* afterwards, wherever the counter wraps around, until half its range has passed.
THEOREM DarkInBlinkCorrect == UnitsSpec => []DarkInBlink
BY PartsRun, LedDarkInBlink, PTL DEF DarkInBlink

\* The boot loader runs only for a request that it has not answered, whatever
\* resets come in between.
THEOREM BootLoaderAskedCorrect == UnitsSpec => []BootLoaderAsked
BY PartsRun, BootBootLoaderAsked, PTL DEF BootLoaderAsked

\* DataOut is given whole frames in order, wherever packets come in while the handler
\* runs, and whatever DataOut does with them; on boards with CAN FD as long as the
\* reserve has always been complete.
THEOREM FramesWholeCorrect == UnitsSpec => []FramesWhole
BY PartsRun, OutParts, PTL DEF FramesWhole

\* On boards without CAN FD every packet that comes in before the NAK is in force has
\* a receive buffer.
THEOREM ReserveSufficesCorrect == UnitsSpec => []ReserveSuffices
BY PartsRun, OutParts, PTL DEF ReserveSuffices

\* With the reserve complete and nothing to serve the endpoint takes packets.
THEOREM TakesPacketsCorrect == UnitsSpec => []TakesPackets
BY PartsRun, OutParts, PTL DEF TakesPackets
=============================================================================
