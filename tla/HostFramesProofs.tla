-------------------------- MODULE HostFramesProofs --------------------------
(***************************************************************************)
(* Type correctness and the ownership of frames (HostFrames), for every    *)
(* number of frames, channels and receive buffers and every behaviour of   *)
(* host and bus except a host that configures the device within one        *)
(* iteration of the main loop (EagerHost).                                 *)
(***************************************************************************)
EXTENDS HostFrames, SequenceFacts, FiniteSetTheorems

USE ConstantsAssumption

\* Frames to prefill the receive buffers with: a sequence of frames of the pool.
LEMMA InjectionIsSeq ==
  ASSUME NEW S, NEW n \in Nat, NEW t \in Injection(1 .. n, S)
  PROVE  t \in Seq(S) /\ Len(t) = n /\ Range(t) \subseteq S /\ IsInjective(t)
<1>1. t \in [1 .. n -> S] /\ IsInjective(t)
  BY DEF Injection
<1>2. t \in Seq(S) /\ Len(t) = n
  BY <1>1
<1> QED BY <1>1, <1>2 DEF Range

\* The listings of a finite set.
LEMMA ListingIsSeq ==
  ASSUME NEW S, IsFiniteSet(S), NEW t \in Listings(S)
  PROVE  t \in Seq(S) /\ Range(t) = S /\ IsInjective(t)
<1>1. Cardinality(S) \in Nat
  BY FS_CardinalityType
<1>2. /\ t \in Injection(1 .. Cardinality(S), S)
      /\ \A x \in S : \E i \in 1 .. Cardinality(S) : t[i] = x
  BY DEF Listings, Bijection, Surjection
<1>3. t \in Seq(S) /\ Len(t) = Cardinality(S) /\ IsInjective(t) /\ Range(t) \subseteq S
  BY <1>1, <1>2, InjectionIsSeq
<1>4. DOMAIN t = 1 .. Cardinality(S)
  BY <1>3, LenProperties
<1>5. S \subseteq Range(t)
  BY <1>2, <1>4 DEF Range
<1> QED BY <1>3, <1>5

\* What USBD_GS_Prefill_RX_Buffers does: frames move from the pool to the end of
\* the receive buffers, at most until all are filled.
LEMMA PrefillFacts ==
  ASSUME NEW buf \in Seq(Frames), Len(buf) <= RxBufs, pool \subseteq Frames,
         Prefill(buf)
  PROVE  \E t \in Seq(Frames) :
           /\ rxBuf' = buf \o t /\ IsInjective(t) /\ Range(t) \subseteq pool
           /\ pool' = pool \ Range(t)
           /\ rxBuf' \in Seq(Frames) /\ Len(rxBuf') <= RxBufs
           /\ Range(rxBuf') = Range(buf) \cup Range(t)
<1> DEFINE n == Smaller(RxBufs - Len(buf), Cardinality(pool))
<1>1. Cardinality(pool) \in Nat /\ Len(buf) \in Nat /\ RxBufs \in Nat
  BY FS_Subset, FS_CardinalityType, LenProperties
<1>2. n \in Nat /\ n <= RxBufs - Len(buf)
  BY <1>1 DEF Smaller
<1>3. PICK t \in Injection(1 .. n, pool) : rxBuf' = buf \o t /\ pool' = pool \ Range(t)
  BY DEF Prefill
<1> HIDE DEF n
<1>4. t \in Seq(pool) /\ Len(t) = n /\ Range(t) \subseteq pool /\ IsInjective(t)
  BY <1>2, <1>3, InjectionIsSeq
<1>5. t \in Seq(Frames)
  BY <1>4, SeqMonotonic
<1>6. /\ buf \o t \in Seq(Frames) /\ Len(buf \o t) = Len(buf) + n
      /\ Range(buf \o t) = Range(buf) \cup Range(t)
  BY <1>4, <1>5, ConcatRange
<1>7. Len(buf) + n <= RxBufs
  BY <1>1, <1>2
<1> QED BY <1>3, <1>4, <1>5, <1>6, <1>7
-----------------------------------------------------------------------------
(* Type correctness. *)

\* The initial state satisfies the inductive invariant.
LEMMA InitIInv == Init => IInv
<1> SUFFICES ASSUME Init PROVE IInv
  OBVIOUS
<1>1. Range(<<>>) = {} /\ IsInjective(<<>>)
  BY EmptyRange
<1>2. 0 \in Chans
  BY DEF Chans
<1>3. TypeOK
  BY <1>2 DEF Init, TypeOK, MainSteps
<1>4. Exclusive /\ Unrepeated
  BY <1>1 DEF Init, Exclusive, Unrepeated
<1>5. HeldInHand /\ InTransferInv
  BY DEF Init, HeldInHand, InTransferInv
<1> QED BY <1>3, <1>4, <1>5 DEF IInv

\* The loop index stays in range.
LEMMA NextChannelType ==
  ASSUME NEW here, NEW after, ch \in Chans, NextChannel(here, after)
  PROVE  ch' \in Chans /\ pc' \in {here, after}
BY DEF NextChannel, Chans

\* A step of the main loop keeps the types.
LEMMA MainType ==
  ASSUME IInv, Main
  PROVE  TypeOK'
<1> USE DEF frameVars, mainVars, inVars, outVars, devVars, MainSteps
<1> TypeOK /\ HeldInHand /\ InTransferInv /\ Unrepeated
  BY DEF IInv
<1>1. CASE Boot
  BY <1>1 DEF Boot, TypeOK
<1>2. CASE SendIdle
  BY <1>2, NextChannelType DEF SendIdle, TypeOK
<1>3. CASE SendTake
  <2>1. fromHost[ch] \in Seq(Frames) /\ fromHost[ch] # <<>>
    BY <1>3 DEF SendTake, TypeOK
  <2>2. Head(fromHost[ch]) \in Frames /\ Tail(fromHost[ch]) \in Seq(Frames)
    BY <2>1, HeadTailProperties
  <2> QED BY <1>3, <2>2 DEF SendTake, TypeOK
<1>4. CASE SendEcho
  <2>1. held \in Frames
    BY <1>4 DEF SendEcho, TypeOK, HeldInHand
  <2>2. Append(toHost, held) \in Seq(Frames)
    BY <2>1 DEF TypeOK
  <2> QED BY <1>4, <2>2, NextChannelType DEF SendEcho, TypeOK
<1>5. CASE SendRetry
  <2>1. held \in Frames /\ fromHost[ch] \in Seq(Frames)
    BY <1>5 DEF SendRetry, TypeOK, HeldInHand
  <2>2. <<held>> \o fromHost[ch] \in Seq(Frames)
    BY <2>1, ConsRange
  <2> QED BY <1>5, <2>2, NextChannelType DEF SendRetry, TypeOK
<1>6. CASE ReceiveFromHost
  <2>1. rxBuf \in Seq(Frames) /\ Len(rxBuf) <= RxBufs /\ pool \subseteq Frames
    BY DEF TypeOK
  <2>2. rxBuf' \in Seq(Frames) /\ Len(rxBuf') <= RxBufs /\ pool' \subseteq Frames
    BY <1>6, <2>1, PrefillFacts DEF ReceiveFromHost
  <2>3. FirstRxBuf(rxBuf') \in Frames \cup {NULL}
    BY <2>2, HeadTailProperties DEF FirstRxBuf
  <2>4. /\ epOut' \in {"closed", "nak", "valid"} /\ xferOut' \in Frames \cup {NULL}
    BY <1>6, <2>3 DEF ReceiveFromHost, PrepareReceive, TypeOK
  <2> QED BY <1>6, <2>2, <2>4 DEF ReceiveFromHost, TypeOK
<1>7. CASE ToHostIdle
  BY <1>7 DEF ToHostIdle, TypeOK
<1>8. CASE ToHostTake
  <2>1. Head(toHost) \in Frames /\ Tail(toHost) \in Seq(Frames)
    BY <1>8, HeadTailProperties DEF ToHostTake, TypeOK
  <2> QED BY <1>8, <2>1 DEF ToHostTake, TypeOK
<1>9. CASE ToHostArg
  BY <1>9 DEF ToHostArg, TypeOK
<1>10. CASE ToHostXmit
  BY <1>10 DEF ToHostXmit, TypeOK
<1>11. CASE ToHostDrop
  BY <1>11 DEF ToHostDrop, TypeOK
<1>12. CASE ReceiveIdle
  BY <1>12 DEF ReceiveIdle, TypeOK
<1>13. CASE ReceiveGet
  BY <1>13 DEF ReceiveGet, GetFrame, TypeOK
<1>14. ASSUME NEW ok \in BOOLEAN, ReceivePut(ok) PROVE TypeOK'
  <2>1. held \in Frames
    BY <1>14 DEF ReceivePut, TypeOK, HeldInHand
  <2>2. Append(toHost, held) \in Seq(Frames)
    BY <2>1 DEF TypeOK
  <2> QED BY <1>14, <2>1, <2>2 DEF ReceivePut, TypeOK
<1>15. CASE ErrorIdle
  BY <1>15, NextChannelType DEF ErrorIdle, EndOfChannel, TypeOK
<1>16. CASE ErrorGet
  BY <1>16 DEF ErrorGet, GetFrame, TypeOK
<1>17. ASSUME NEW ok \in BOOLEAN, ErrorPut(ok) PROVE TypeOK'
  <2>1. held \in Frames
    BY <1>17 DEF ErrorPut, TypeOK, HeldInHand
  <2>2. Append(toHost, held) \in Seq(Frames)
    BY <2>1 DEF TypeOK
  <2> QED BY <1>17, <2>1, <2>2, NextChannelType DEF ErrorPut, EndOfChannel, TypeOK
<1> QED
  BY <1>1, <1>2, <1>3, <1>4, <1>5, <1>6, <1>7, <1>8, <1>9, <1>10, <1>11, <1>12,
     <1>13, <1>14, <1>15, <1>16, <1>17 DEF Main

\* What is left of a list of frames after some were purged.
LEMMA InOrderFacts ==
  ASSUME NEW s \in Seq(Frames), NEW S, S \subseteq Range(s), NEW t \in InOrder(s, S)
  PROVE  t \in Seq(Frames) /\ Range(t) = S /\ IsInjective(t)
<1>1. Range(s) \subseteq Frames
  BY RangeOfSeq
<1>2. S \subseteq Frames /\ IsFiniteSet(S)
  BY <1>1, FS_Subset
<1>3. t \in Listings(S)
  BY DEF InOrder
<1>4. t \in Seq(S) /\ Range(t) = S /\ IsInjective(t)
  BY <1>2, <1>3, ListingIsSeq
<1> QED BY <1>2, <1>4, SeqMonotonic

\* A step of the USB interrupt keeps the types.
LEMMA InterruptType ==
  ASSUME IInv, Interrupt
  PROVE  TypeOK'
<1> USE DEF frameVars, mainVars, inVars, outVars, devVars, MainSteps
<1> TypeOK /\ InTransferInv /\ Unrepeated
  BY DEF IInv
<1>1. CASE HostSends
  BY <1>1 DEF HostSends, TypeOK
<1>2. ASSUME NEW c \in Chans, DataOut(c) PROVE TypeOK'
  <2> DEFINE written == [f \in Frames |-> IF f = xferOut THEN c ELSE chan[f]]
             to      == written[Head(rxBuf)]
  <2>1. /\ Head(rxBuf) \in Frames /\ Tail(rxBuf) \in Seq(Frames)
        /\ Len(Tail(rxBuf)) <= RxBufs /\ pool \subseteq Frames
    BY <1>2, HeadTailProperties, LenProperties DEF DataOut, TypeOK
  <2>2. written \in [Frames -> Chans] /\ to \in Chans
    BY <2>1 DEF TypeOK
  <2>3. rxBuf' \in Seq(Frames) /\ Len(rxBuf') <= RxBufs /\ pool' \subseteq Frames
    <3>1. Prefill(Tail(rxBuf))
      BY <1>2 DEF DataOut
    <3> QED BY <2>1, <3>1, PrefillFacts
  <2>4. FirstRxBuf(rxBuf') \in Frames \cup {NULL}
    BY <2>3, HeadTailProperties DEF FirstRxBuf
  <2>5. /\ epOut' \in {"closed", "nak", "valid"} /\ xferOut' \in Frames \cup {NULL}
        /\ rxHw' \in {0, 1}
    BY <1>2, <2>4 DEF DataOut, PrepareReceive, TypeOK
  <2>6. fromHost' \in [Chans -> Seq(Frames)]
    <3>1. fromHost' = [fromHost EXCEPT ![to] = Append(@, Head(rxBuf))]
      BY <1>2 DEF DataOut
    <3>2. fromHost[to] \in Seq(Frames)
      BY <2>2 DEF TypeOK
    <3>3. Append(fromHost[to], Head(rxBuf)) \in Seq(Frames)
      BY <2>1, <3>2
    <3> HIDE DEF to, written
    <3> QED BY <2>2, <3>1, <3>3 DEF TypeOK
  <2>7. chan' = written
    BY <1>2 DEF DataOut
  <2>8. chan' \in [Frames -> Chans]
    BY <2>2, <2>7
  <2>9. UNCHANGED <<toHost, toHostBuf, held, pc, ch, txArg, epIn, xferIn, started, running>>
    BY <1>2 DEF DataOut
  <2>10. settled' \in BOOLEAN /\ configured' \in BOOLEAN /\ suspended' \in BOOLEAN
    BY <1>2 DEF DataOut, TypeOK
  <2>11. /\ toHost' \in Seq(Frames) /\ toHostBuf' \in Frames \cup {NULL}
         /\ held' \in Frames \cup {NULL} /\ txArg' \in Frames \cup {NULL}
         /\ pc' \in MainSteps /\ ch' \in Chans
         /\ started' \subseteq Chans /\ running' \subseteq started'
         /\ epIn' \in {"closed", "nak", "valid"} /\ xferIn' \in Frames \cup {NULL}
    BY <2>9 DEF TypeOK
  <2> HIDE DEF written, to, MainSteps
  <2> QED BY ONLY <2>3, <2>5, <2>6, <2>8, <2>10, <2>11 DEF TypeOK
<1>3. CASE DataOutInvalid
  <2>1. FirstRxBuf(rxBuf) \in Frames \cup {NULL}
    BY HeadTailProperties DEF FirstRxBuf, TypeOK
  <2> QED BY <1>3, <2>1 DEF DataOutInvalid, PrepareReceive, TypeOK
<1>4. CASE DataOutAssert
  BY <1>4 DEF DataOutAssert, TypeOK
<1>5. CASE DataIn
  BY <1>5 DEF DataIn, InTransferInv, TypeOK
<1>6. CASE SetConfig
  <2>1. FirstRxBuf(rxBuf) \in Frames \cup {NULL}
    BY HeadTailProperties DEF FirstRxBuf, TypeOK
  <2> QED BY <1>6, <2>1 DEF SetConfig, TypeOK
<1>7. CASE Unconfigure
  BY <1>7 DEF Unconfigure, DeInit, TypeOK
<1>8. CASE Suspend
  <2>1. Range(toHost) \subseteq Frames /\ \A c \in Chans : Range(fromHost[c]) \subseteq Frames
    BY RangeOfSeq DEF TypeOK
  <2> QED BY <1>8, <2>1 DEF Suspend, TypeOK
<1>9. CASE Resume
  <2>1. suspended' \in BOOLEAN
    BY <1>9 DEF Resume
  <2> QED BY <1>9, <2>1 DEF Resume, TypeOK
<1>10. ASSUME NEW c \in Chans, ModeReset(c) PROVE TypeOK'
  <2> DEFINE kept == Range(toHost) \ {f \in Range(toHost) : chan[f] = c}
  <2>1. Range(toHost) \subseteq Frames /\ Range(fromHost[c]) \subseteq Frames
    BY RangeOfSeq DEF TypeOK
  <2>2. toHost' \in InOrder(toHost, kept) /\ kept \subseteq Range(toHost)
    BY <1>10 DEF ModeReset
  <2>3. toHost' \in Seq(Frames)
    BY <2>2, InOrderFacts DEF TypeOK
  <2> QED BY <1>10, <2>1, <2>3 DEF ModeReset, TypeOK
<1>11. ASSUME NEW c \in Chans, ModeStart(c) PROVE TypeOK'
  BY <1>11 DEF ModeStart, TypeOK
<1> QED
  BY <1>1, <1>2, <1>3, <1>4, <1>5, <1>6, <1>7, <1>8, <1>9, <1>10, <1>11 DEF Interrupt

-----------------------------------------------------------------------------
(* The main loop owns the frame it works on; the IN transfer is owned. *)

\* Whether a frame is in hand follows pc.
LEMMA HeldStep ==
  ASSUME IInv, [Next]_vars
  PROVE  HeldInHand'
<1> USE DEF frameVars, mainVars, inVars, outVars, devVars, MainSteps
<1> TypeOK /\ HeldInHand
  BY DEF IInv
<1>1. CASE Main
  <2>1. CASE Boot \/ SendIdle \/ SendTake \/ SendEcho \/ SendRetry \/ ReceiveFromHost
    BY <2>1 DEF Boot, SendIdle, SendTake, SendEcho, SendRetry, ReceiveFromHost,
       NextChannel, HeldInHand, TypeOK
  <2>2. CASE ToHostIdle \/ ToHostTake \/ ToHostArg \/ ToHostXmit \/ ToHostDrop
    BY <2>2 DEF ToHostIdle, ToHostTake, ToHostArg, ToHostXmit, ToHostDrop,
       HeldInHand, TypeOK
  <2>3. CASE \/ ReceiveIdle \/ ReceiveGet \/ \E ok \in BOOLEAN : ReceivePut(ok)
             \/ ErrorIdle \/ ErrorGet \/ \E ok \in BOOLEAN : ErrorPut(ok)
    BY <2>3 DEF ReceiveIdle, ReceiveGet, GetFrame, ReceivePut, ErrorIdle, ErrorGet,
       ErrorPut, EndOfChannel, NextChannel, HeldInHand, TypeOK
  <2> QED BY <1>1, <2>1, <2>2, <2>3 DEF Main
<1>2. CASE Interrupt
  BY <1>2 DEF Interrupt, HostSends, DataOut, DataOutInvalid, DataOutAssert, DataIn,
     SetConfig, Unconfigure, Suspend, Resume, ModeReset, ModeStart, HeldInHand, TypeOK
<1>3. CASE UNCHANGED vars
  BY <1>3 DEF vars, HeldInHand
<1> QED BY <1>1, <1>2, <1>3 DEF Next

-----------------------------------------------------------------------------
(* Every frame in exactly one place. *)

\* A step of the main loop keeps the frames apart and the lists free of
\* repetitions.
LEMMA MainExclusive ==
  ASSUME IInv, Main
  PROVE  Exclusive' /\ Unrepeated'
<1> USE DEF frameVars, mainVars, inVars, outVars, devVars
<1> TypeOK /\ HeldInHand /\ Exclusive /\ Unrepeated
  BY DEF IInv
<1>1. CASE UNCHANGED frameVars
  BY <1>1 DEF Exclusive, Unrepeated
<1>2. CASE Boot \/ SendIdle \/ ToHostIdle \/ ToHostArg \/ ToHostXmit \/ ReceiveIdle \/ ErrorIdle
  BY <1>1, <1>2 DEF Boot, SendIdle, ToHostIdle, ToHostArg, ToHostXmit, ReceiveIdle, ErrorIdle
<1>3. CASE SendTake
  <2>1. fromHost[ch] \in Seq(Frames) /\ fromHost[ch] # <<>> /\ IsInjective(fromHost[ch])
        /\ held = NULL
    BY <1>3 DEF SendTake, TypeOK, Unrepeated, HeldInHand
  <2>2. /\ Head(fromHost[ch]) \in Range(fromHost[ch]) /\ Head(fromHost[ch]) \in Frames
        /\ Range(Tail(fromHost[ch])) = Range(fromHost[ch]) \ {Head(fromHost[ch])}
        /\ IsInjective(Tail(fromHost[ch]))
    BY <2>1, TailRange
  <2>3. \A c \in Chans : fromHost'[c] = IF c = ch THEN Tail(fromHost[ch]) ELSE fromHost[c]
    BY <1>3 DEF SendTake, TypeOK
  <2>4. \A c \in Chans : Range(fromHost'[c]) = Range(fromHost[c]) \ {held'}
    BY <1>3, <2>2, <2>3 DEF SendTake, TypeOK, Exclusive
  <2>5. Exclusive'
    <3>1. /\ held' \in Range(fromHost[ch]) /\ held' # NULL /\ held' \in Frames /\ ch \in Chans
          /\ UNCHANGED <<pool, toHost, rxBuf, toHostBuf>>
      BY <1>3, <2>2 DEF SendTake, TypeOK
    <3>2. ASSUME NEW f \in Frames, f # held'
          PROVE  \A c \in Chans : f \in Range(fromHost'[c]) <=> f \in Range(fromHost[c])
      BY <2>4, <3>2
    <3>3. \A c \in Chans : held' \notin Range(fromHost'[c])
      BY <2>4
    <3>4. /\ held' \notin pool /\ held' \notin Range(rxBuf) /\ held' \notin Range(toHost)
          /\ held' # toHostBuf
      BY <3>1 DEF Exclusive
    <3> QED BY <2>1, <3>1, <3>2, <3>3, <3>4 DEF Exclusive
  <2>6. Unrepeated'
    BY <1>3, <2>2, <2>3 DEF SendTake, Unrepeated
  <2> QED BY <2>5, <2>6
<1>4. ASSUME held \in Frames, held' = NULL,
             toHost' = Append(toHost, held),
             UNCHANGED <<pool, fromHost, rxBuf, toHostBuf>>
      PROVE  Exclusive' /\ Unrepeated'
  <2>1. held \notin Range(toHost)
    BY <1>4 DEF Exclusive
  <2>2. Range(toHost') = Range(toHost) \cup {held} /\ IsInjective(toHost')
    BY <1>4, <2>1, AppendRange DEF TypeOK, Unrepeated
  <2>3. Exclusive'
    BY <1>4, <2>2 DEF Exclusive, TypeOK
  <2> QED BY <1>4, <2>2, <2>3 DEF Unrepeated
<1>5. ASSUME held \in Frames, held' = NULL, pool' = pool \cup {held},
             UNCHANGED <<toHost, fromHost, rxBuf, toHostBuf>>
      PROVE  Exclusive' /\ Unrepeated'
  <2>1. Exclusive'
    BY <1>5 DEF Exclusive
  <2> QED BY <1>5, <2>1 DEF Unrepeated
<1>6. CASE SendEcho
  <2>1. held \in Frames
    BY <1>6 DEF SendEcho, TypeOK, HeldInHand
  <2> QED BY <1>4, <1>6, <2>1 DEF SendEcho
<1>7. CASE SendRetry
  <2>1. held \in Frames /\ fromHost[ch] \in Seq(Frames) /\ IsInjective(fromHost[ch])
        /\ ch \in Chans
    BY <1>7 DEF SendRetry, TypeOK, HeldInHand, Unrepeated
  <2>2. held \notin Range(fromHost[ch])
    BY <2>1 DEF Exclusive
  <2>3. /\ Range(<<held>> \o fromHost[ch]) = {held} \cup Range(fromHost[ch])
        /\ IsInjective(<<held>> \o fromHost[ch])
    BY <2>1, <2>2, ConsRange
  <2> DEFINE back == <<held>> \o fromHost[ch]
  <2>4. fromHost' = [fromHost EXCEPT ![ch] = back]
    BY <1>7 DEF SendRetry
  <2>5. Range(back) = {held} \cup Range(fromHost[ch]) /\ IsInjective(back)
    BY <2>3
  <2> HIDE DEF back
  <2>6. \A c \in Chans : fromHost'[c] = IF c = ch THEN back ELSE fromHost[c]
    BY <2>4 DEF TypeOK
  <2>7. \A c \in Chans : Range(fromHost'[c]) =
           IF c = ch THEN {held} \cup Range(fromHost[c]) ELSE Range(fromHost[c])
    BY <2>5, <2>6
  <2>8. UNCHANGED <<pool, toHost, rxBuf, toHostBuf>> /\ held' = NULL
    BY <1>7 DEF SendRetry
  <2>9. Exclusive'
    <3>1. held # NULL /\ \A c \in Chans : held \notin Range(fromHost[c])
      BY <2>1 DEF Exclusive
    <3>2. ASSUME NEW f \in Frames, f # held
          PROVE  \A c \in Chans : f \in Range(fromHost'[c]) <=> f \in Range(fromHost[c])
      BY <2>7, <3>2
    <3>3. \A c \in Chans : held \in Range(fromHost'[c]) <=> c = ch
      BY <2>7, <3>1
    <3>4. /\ held \notin pool /\ held \notin Range(rxBuf) /\ held \notin Range(toHost)
          /\ held # toHostBuf
      BY <2>1 DEF Exclusive
    <3> QED BY <2>1, <2>8, <3>1, <3>2, <3>3, <3>4 DEF Exclusive
  <2>10. Unrepeated'
    BY <2>5, <2>6, <2>8 DEF Unrepeated
  <2> QED BY <2>9, <2>10
<1>8. CASE ReceiveFromHost
  <2>1. rxBuf \in Seq(Frames) /\ Len(rxBuf) <= RxBufs /\ pool \subseteq Frames
        /\ IsInjective(rxBuf)
    BY DEF TypeOK, Unrepeated
  <2>2. PICK t \in Seq(Frames) :
           /\ rxBuf' = rxBuf \o t /\ IsInjective(t) /\ Range(t) \subseteq pool
           /\ pool' = pool \ Range(t)
           /\ Range(rxBuf') = Range(rxBuf) \cup Range(t)
    BY <1>8, <2>1, PrefillFacts DEF ReceiveFromHost
  <2>3. Range(rxBuf) \cap Range(t) = {}
    BY <2>1, <2>2 DEF Exclusive
  <2>4. IsInjective(rxBuf')
    BY <2>1, <2>2, <2>3, ConcatRange
  <2>5. UNCHANGED <<toHost, fromHost, toHostBuf, held>>
    BY <1>8 DEF ReceiveFromHost
  <2>6. Exclusive'
    BY <2>1, <2>2, <2>5 DEF Exclusive
  <2>7. Unrepeated'
    BY <2>4, <2>5 DEF Unrepeated
  <2> QED BY <2>6, <2>7
<1>9. CASE ToHostTake
  <2>1. toHost \in Seq(Frames) /\ toHost # <<>> /\ IsInjective(toHost) /\ toHostBuf = NULL
    BY <1>9 DEF ToHostTake, TypeOK, Unrepeated
  <2>2. /\ Head(toHost) \in Frames /\ Head(toHost) \in Range(toHost)
        /\ Range(Tail(toHost)) = Range(toHost) \ {Head(toHost)}
        /\ IsInjective(Tail(toHost))
    BY <2>1, TailRange
  <2>3. Exclusive'
    BY <1>9, <2>1, <2>2 DEF ToHostTake, Exclusive
  <2>4. Unrepeated'
    BY <1>9, <2>2 DEF ToHostTake, Unrepeated
  <2> QED BY <2>3, <2>4
<1>10. CASE ToHostDrop
  <2>1. Exclusive'
    BY <1>10 DEF ToHostDrop, Exclusive, TypeOK
  <2> QED BY <1>10, <2>1 DEF ToHostDrop, Unrepeated
<1>11. ASSUME NEW here, NEW there, GetFrame(here, there), held = NULL
       PROVE  Exclusive' /\ Unrepeated'
  <2>1. PICK f \in pool : held' = f /\ pool' = pool \ {f}
    BY <1>11 DEF GetFrame
  <2>2. f \in Frames
    BY <2>1 DEF TypeOK
  <2>3. UNCHANGED <<toHost, fromHost, rxBuf, toHostBuf>>
    BY <1>11 DEF GetFrame
  <2>4. Exclusive'
    BY <1>11, <2>1, <2>2, <2>3 DEF Exclusive
  <2> QED BY <2>3, <2>4 DEF Unrepeated
<1>12. CASE ReceiveGet
  BY <1>11, <1>12 DEF ReceiveGet, GetFrame, HeldInHand
<1>13. CASE ErrorGet
  BY <1>11, <1>13 DEF ErrorGet, GetFrame, HeldInHand
<1>14. ASSUME NEW ok \in BOOLEAN, ReceivePut(ok) \/ ErrorPut(ok)
       PROVE  Exclusive' /\ Unrepeated'
  <2>1. held \in Frames
    BY <1>14 DEF ReceivePut, ErrorPut, TypeOK, HeldInHand
  <2> QED BY <1>4, <1>5, <1>14, <2>1 DEF ReceivePut, ErrorPut
<1> QED
  BY <1>2, <1>3, <1>6, <1>7, <1>8, <1>9, <1>10, <1>12, <1>13, <1>14 DEF Main

\* A step of the USB interrupt keeps the frames apart and the lists free of
\* repetitions.
LEMMA InterruptExclusive ==
  ASSUME IInv, Interrupt
  PROVE  Exclusive' /\ Unrepeated'
<1> USE DEF frameVars, mainVars, inVars, outVars, devVars
<1> TypeOK /\ Exclusive /\ Unrepeated /\ InTransferInv
  BY DEF IInv
<1>1. CASE UNCHANGED <<pool, toHost, fromHost, rxBuf, toHostBuf, held>>
  BY <1>1 DEF Exclusive, Unrepeated
<1>2. CASE HostSends \/ DataOutInvalid \/ DataOutAssert \/ SetConfig \/ Resume
  BY <1>1, <1>2 DEF HostSends, DataOutInvalid, DataOutAssert, SetConfig, Resume
<1>3. ASSUME NEW c \in Chans, ModeStart(c) PROVE Exclusive' /\ Unrepeated'
  BY <1>1, <1>3 DEF ModeStart
<1>4. ASSUME NEW c \in Chans, DataOut(c) PROVE Exclusive' /\ Unrepeated'
  <2> DEFINE first == Head(rxBuf)
             rest  == Tail(rxBuf)
  <2>1. /\ rxBuf \in Seq(Frames) /\ rxBuf # <<>> /\ IsInjective(rxBuf)
        /\ pool \subseteq Frames /\ Len(rxBuf) <= RxBufs /\ Len(rxBuf) \in Nat
        /\ RxBufs \in Nat
    BY <1>4, LenProperties DEF DataOut, TypeOK, Unrepeated
  <2>2. /\ first \in Frames /\ first \in Range(rxBuf)
        /\ rest \in Seq(Frames) /\ Len(rest) = Len(rxBuf) - 1
        /\ Range(rest) = Range(rxBuf) \ {first} /\ IsInjective(rest)
    BY <2>1, TailRange
  <2>3. Len(rest) <= RxBufs
    BY <2>1, <2>2
  <2>4. PICK to \in Chans : fromHost' = [fromHost EXCEPT ![to] = Append(@, first)]
    <3>1. [f \in Frames |-> IF f = xferOut THEN c ELSE chan[f]][first] \in Chans
      BY <2>2 DEF TypeOK
    <3> QED BY <1>4, <3>1 DEF DataOut
  <2>5. Prefill(rest) /\ UNCHANGED <<toHost, toHostBuf, held>>
    BY <1>4 DEF DataOut
  <2> HIDE DEF first, rest
  <2>6. PICK t \in Seq(Frames) :
           /\ rxBuf' = rest \o t /\ IsInjective(t) /\ Range(t) \subseteq pool
           /\ pool' = pool \ Range(t)
           /\ Range(rxBuf') = Range(rest) \cup Range(t)
    BY <2>1, <2>2, <2>3, <2>5, PrefillFacts
  <2>7. \A d \in Chans : first \notin Range(fromHost[d])
    BY <2>2 DEF Exclusive
  <2>8. /\ fromHost[to] \in Seq(Frames) /\ IsInjective(fromHost[to])
        /\ first \notin Range(fromHost[to])
    BY <2>7 DEF TypeOK, Unrepeated
  <2> DEFINE queue == Append(fromHost[to], first)
  <2>9. Range(queue) = Range(fromHost[to]) \cup {first} /\ IsInjective(queue)
    BY <2>2, <2>8, AppendRange
  <2>10. fromHost' = [fromHost EXCEPT ![to] = queue]
    BY <2>4
  <2> HIDE DEF queue
  <2>11. \A d \in Chans : fromHost'[d] = IF d = to THEN queue ELSE fromHost[d]
    BY <2>10 DEF TypeOK
  <2>12. Unrepeated'
    <3>1. Range(rest) \cap Range(t) = {}
      BY <2>1, <2>2, <2>6 DEF Exclusive
    <3>2. IsInjective(rxBuf')
      BY <2>2, <2>6, <3>1, ConcatRange
    <3> QED BY <2>5, <2>9, <2>11, <3>2 DEF Unrepeated
  <2>13. Exclusive'
    <3>1. \A d \in Chans : first \in Range(fromHost'[d]) <=> d = to
      BY <2>7, <2>9, <2>11
    <3>2. ASSUME NEW f \in Frames, f # first
          PROVE  \A d \in Chans : f \in Range(fromHost'[d]) <=> f \in Range(fromHost[d])
      BY <2>9, <2>11, <3>2
    <3>3. /\ first \notin pool /\ first \notin Range(toHost)
          /\ first # toHostBuf /\ first # held
      BY <2>2 DEF Exclusive
    <3>4. first \notin Range(rxBuf') /\ first \notin pool'
      BY <2>2, <2>6, <3>3
    <3>5. ASSUME NEW f \in Frames, f # first
          PROVE  /\ f \in Range(rxBuf') <=> f \in Range(rxBuf) \/ f \in Range(t)
                 /\ f \in pool' <=> f \in pool /\ f \notin Range(t)
                 /\ f \in Range(t) => f \in pool
      BY <2>2, <2>6, <3>5
    <3>6. ASSUME NEW f \in Frames, f # first
          PROVE  Exclusive!(f)'
      BY <2>5, <3>2, <3>5, <3>6 DEF Exclusive
    <3>7. ASSUME NEW f \in Frames, f = first
          PROVE  Exclusive!(f)'
      BY <2>5, <3>1, <3>3, <3>4, <3>7
    <3> QED BY <3>6, <3>7 DEF Exclusive
  <2> QED BY <2>12, <2>13
<1>5. CASE DataIn
  <2>1. toHostBuf \in Frames /\ toHostBuf' = NULL /\ pool' = pool \cup {toHostBuf}
        /\ UNCHANGED <<toHost, fromHost, rxBuf, held>>
    BY <1>5 DEF DataIn, InTransferInv, TypeOK
  <2>2. Exclusive'
    BY <2>1 DEF Exclusive
  <2> QED BY <2>1, <2>2 DEF Unrepeated
<1>6. CASE Unconfigure
  <2>1. toHostBuf' = NULL /\ pool' = pool \cup ({toHostBuf} \ {NULL})
        /\ UNCHANGED <<toHost, fromHost, rxBuf, held>>
    BY <1>6 DEF Unconfigure, DeInit
  <2>2. Exclusive'
    BY <2>1 DEF Exclusive, TypeOK
  <2> QED BY <2>1, <2>2 DEF Unrepeated
<1>7. CASE Suspend
  <2>1. /\ pool' = pool \cup Range(toHost) \cup UNION {Range(fromHost[c]) : c \in Chans}
        /\ toHost' = <<>> /\ \A c \in Chans : fromHost'[c] = <<>>
        /\ UNCHANGED <<rxBuf, toHostBuf, held>>
    BY <1>7 DEF Suspend
  <2>2. /\ Range(toHost') = {} /\ IsInjective(toHost')
        /\ \A c \in Chans : Range(fromHost'[c]) = {} /\ IsInjective(fromHost'[c])
    BY <2>1, EmptyRange
  <2>3. \A f : f \in pool' <=>
           f \in pool \/ f \in Range(toHost) \/ \E c \in Chans : f \in Range(fromHost[c])
    BY <2>1
  <2>4. Exclusive'
    BY <2>1, <2>2, <2>3 DEF Exclusive
  <2> QED BY <2>1, <2>2, <2>4 DEF Unrepeated
<1>8. ASSUME NEW c \in Chans, ModeReset(c) PROVE Exclusive' /\ Unrepeated'
  <2> DEFINE purged == {f \in Range(toHost) : chan[f] = c}
             kept == Range(toHost) \ purged
  <2>1. toHost' \in InOrder(toHost, kept) /\ kept \subseteq Range(toHost)
    BY <1>8 DEF ModeReset
  <2>2. Range(toHost') = kept /\ IsInjective(toHost')
    BY <2>1, InOrderFacts DEF TypeOK
  <2>3. /\ pool' = pool \cup Range(fromHost[c]) \cup purged
        /\ fromHost' = [fromHost EXCEPT ![c] = <<>>]
        /\ UNCHANGED <<rxBuf, toHostBuf, held>>
    BY <1>8 DEF ModeReset
  <2>4. purged \subseteq Range(toHost)
    OBVIOUS
  <2> HIDE DEF purged
  <2>5. \A d \in Chans : fromHost'[d] = IF d = c THEN <<>> ELSE fromHost[d]
    BY <2>3 DEF TypeOK
  <2>6. \A d \in Chans : /\ IsInjective(fromHost'[d])
                         /\ Range(fromHost'[d]) = IF d = c THEN {} ELSE Range(fromHost[d])
    BY <2>5, EmptyRange DEF Unrepeated
  <2>7. ASSUME NEW f \in Frames
        PROVE  Exclusive!(f)'
    <3>1. f \in Range(toHost') <=> f \in Range(toHost) /\ f \notin purged
      BY <2>2
    <3>2. f \in pool' <=> f \in pool \/ f \in Range(fromHost[c]) \/ f \in purged
      BY <2>3
    <3>3. f \in purged => f \in Range(toHost)
      BY <2>4
    <3> QED BY <2>3, <2>6, <3>1, <3>2, <3>3 DEF Exclusive
  <2>8. Exclusive'
    BY <2>7 DEF Exclusive
  <2> QED BY <2>2, <2>3, <2>6, <2>8 DEF Unrepeated
<1> QED
  BY <1>2, <1>3, <1>4, <1>5, <1>6, <1>7, <1>8 DEF Interrupt

-----------------------------------------------------------------------------
(* The IN transfer. *)

\* The IN endpoint transmits to_host_buf: a reset can take to_host_buf away from
\* the main loop, but then the host cannot have configured the device again
\* before SendToHost is over.
LEMMA InTransferStep ==
  ASSUME ~EagerHost, IInv, [Next]_vars
  PROVE  InTransferInv'
<1> USE DEF frameVars, mainVars, inVars, outVars, devVars
<1> TypeOK /\ InTransferInv
  BY DEF IInv
<1>1. CASE Main
  <2>1. CASE Boot
    BY <2>1 DEF Boot, InTransferInv
  <2>2. ASSUME UNCHANGED <<inVars, configured, toHostBuf>>,
               pc \notin {"sth_arg", "sth_xmit", "sth_drop"},
               pc' \notin {"sth_arg", "sth_xmit", "sth_drop"}
        PROVE  InTransferInv'
    BY <2>2 DEF InTransferInv
  <2>3. CASE SendIdle \/ SendTake \/ SendEcho \/ SendRetry \/ ReceiveFromHost
             \/ ToHostIdle \/ ReceiveIdle
    BY <2>2, <2>3 DEF SendIdle, SendTake, SendEcho, SendRetry, ReceiveFromHost,
       ToHostIdle, ReceiveIdle, NextChannel
  <2>4. CASE ToHostTake
    <3>1. /\ toHostBuf = NULL /\ toHostBuf' = Head(toHost) /\ pc' = "sth_arg"
          /\ UNCHANGED <<epIn, configured>>
      BY <2>4 DEF ToHostTake
    <3>2. toHostBuf' # NULL
      <4>1. toHost \in Seq(Frames) /\ toHost # <<>>
        BY <2>4 DEF ToHostTake, TypeOK
      <4> QED BY <3>1, <4>1, HeadTailProperties
    <3> QED BY <3>1, <3>2 DEF InTransferInv
  <2>5. CASE ToHostArg
    BY <2>5 DEF ToHostArg, InTransferInv
  <2>6. CASE ToHostXmit
    BY <2>6 DEF ToHostXmit, InTransferInv
  <2>7. CASE ToHostDrop
    BY <2>7 DEF ToHostDrop, InTransferInv
  <2>8. CASE ReceiveGet \/ ErrorGet
    BY <2>2, <2>8 DEF ReceiveGet, ErrorGet, GetFrame
  <2>9. ASSUME NEW ok \in BOOLEAN, ReceivePut(ok) PROVE InTransferInv'
    BY <2>2, <2>9 DEF ReceivePut
  <2>10. CASE ErrorIdle
    BY <2>2, <2>10 DEF ErrorIdle, EndOfChannel, NextChannel
  <2>11. ASSUME NEW ok \in BOOLEAN, ErrorPut(ok) PROVE InTransferInv'
    BY <2>2, <2>11 DEF ErrorPut, EndOfChannel, NextChannel
  <2> QED BY <1>1, <2>1, <2>3, <2>4, <2>5, <2>6, <2>7, <2>8, <2>9, <2>10, <2>11 DEF Main
<1>2. CASE Interrupt
  <2>1. ASSUME UNCHANGED <<inVars, configured, settled, toHostBuf, txArg>>,
               pc' = pc \/ pc' = "halted"
        PROVE  InTransferInv'
    BY <2>1 DEF InTransferInv
  <2>2. CASE HostSends \/ DataOutInvalid \/ DataOutAssert \/ Suspend \/ Resume
    BY <2>1, <2>2 DEF HostSends, DataOutInvalid, DataOutAssert, Suspend, Resume
  <2>3. ASSUME NEW c \in Chans, DataOut(c) \/ ModeReset(c) \/ ModeStart(c)
        PROVE  InTransferInv'
    BY <2>1, <2>3 DEF DataOut, ModeReset, ModeStart
  <2>4. CASE DataIn
    BY <2>4 DEF DataIn, InTransferInv
  <2>5. CASE SetConfig
    <3>1. /\ settled /\ configured' = TRUE /\ epIn' = "nak"
          /\ UNCHANGED <<pc, settled, toHostBuf, txArg>>
      BY <2>5 DEF SetConfig
    <3> QED BY <3>1 DEF InTransferInv
  <2>6. CASE Unconfigure
    <3>1. /\ configured' = FALSE /\ settled' = FALSE /\ epIn' = "closed" /\ pc' = pc
      BY <2>6 DEF Unconfigure, DeInit
    <3> QED BY <3>1 DEF InTransferInv
  <2> QED BY <1>2, <2>2, <2>3, <2>4, <2>5, <2>6 DEF Interrupt
<1>3. CASE UNCHANGED vars
  BY <1>3 DEF vars, InTransferInv
<1> QED BY <1>1, <1>2, <1>3 DEF Next

-----------------------------------------------------------------------------
(* The inductive invariant, and what follows from it. *)

\* Every step keeps the inductive invariant.
LEMMA IInvStep ==
  ASSUME ~EagerHost, IInv, [Next]_vars
  PROVE  IInv'
<1>1. CASE UNCHANGED vars
  <2> USE DEF IInv, vars, frameVars, mainVars, inVars, outVars, devVars
  <2>1. TypeOK'
    BY <1>1 DEF TypeOK
  <2>2. HeldInHand' /\ InTransferInv'
    BY <1>1 DEF HeldInHand, InTransferInv
  <2>3. Exclusive' /\ Unrepeated'
    BY <1>1 DEF Exclusive, Unrepeated
  <2> QED BY <2>1, <2>2, <2>3
<1>2. CASE Next
  <2>1. TypeOK'
    BY <1>2, MainType, InterruptType DEF Next
  <2>2. Exclusive' /\ Unrepeated'
    BY <1>2, MainExclusive, InterruptExclusive DEF Next
  <2>3. HeldInHand' /\ InTransferInv'
    BY HeldStep, InTransferStep
  <2> QED BY <2>1, <2>2, <2>3 DEF IInv
<1> QED BY <1>1, <1>2

\* IInv holds in every reachable state.
THEOREM IInvCorrect == ~EagerHost => (Spec => []IInv)
<1> SUFFICES ASSUME ~EagerHost PROVE Spec => []IInv
  OBVIOUS
<1>1. IInv /\ [Next]_vars => IInv'
  BY IInvStep
<1> QED BY <1>1, InitIInv, PTL DEF Spec

\* Every variable has its type in every reachable state: at most RxBufs receive
\* buffers are kept, a closed endpoint has no transfer.
THEOREM TypeCorrect == ~EagerHost => (Spec => []TypeOK)
<1>1. IInv => TypeOK
  BY DEF IInv
<1> QED BY <1>1, IInvCorrect, PTL

\* Frames that are kept apart are each in exactly one place.
LEMMA ExclusiveIsConservation ==
  ASSUME TypeOK, Exclusive, Unrepeated
  PROVE  Conservation
<1>1. ASSUME NEW f \in Frames
      PROVE  \E p \in Places : IsIn(f, p) /\ \A q \in Places : IsIn(f, q) => q = p
  <2>1. ch \in Chans
    BY DEF TypeOK
  <2>2. CASE f \in pool
    <3>1. /\ IsIn(f, Pool) /\ Pool \in Places
      BY <2>2 DEF IsIn, Places
    <3>2. \A q : IsIn(f, q) => q = Pool
      BY <2>2 DEF IsIn, Exclusive
    <3> QED BY <3>1, <3>2
  <2>3. CASE f \in Range(rxBuf)
    <3>1. /\ IsIn(f, RxPlace) /\ RxPlace \in Places
      BY <2>3 DEF IsIn, Places
    <3>2. \A q : IsIn(f, q) => q = RxPlace
      BY <2>3 DEF IsIn, Exclusive
    <3> QED BY <3>1, <3>2
  <2>4. CASE f \in Range(toHost)
    <3>1. /\ IsIn(f, Outbox) /\ Outbox \in Places
      BY <2>4 DEF IsIn, Places
    <3>2. \A q : IsIn(f, q) => q = Outbox
      BY <2>4 DEF IsIn, Exclusive
    <3> QED BY <3>1, <3>2
  <2>5. CASE f = toHostBuf
    <3>1. /\ IsIn(f, TxPlace) /\ TxPlace \in Places
      BY <2>5 DEF IsIn, Places
    <3>2. \A q : IsIn(f, q) => q = TxPlace
      BY <2>5 DEF IsIn, Exclusive
    <3> QED BY <3>1, <3>2
  <2>6. CASE f = held
    <3>1. /\ IsIn(f, Work(ch)) /\ Work(ch) \in Places
      BY <2>1, <2>6 DEF IsIn, Places
    <3>2. \A q : IsIn(f, q) => q = Work(ch)
      BY <2>6 DEF IsIn, Exclusive
    <3> QED BY <3>1, <3>2
  <2>7. ASSUME NEW c \in Chans, f \in Range(fromHost[c])
        PROVE  \E p \in Places : IsIn(f, p) /\ \A q \in Places : IsIn(f, q) => q = p
    <3>1. /\ IsIn(f, Queue(c)) /\ Queue(c) \in Places
      BY <2>7 DEF IsIn, Places
    <3>2. \A q : IsIn(f, q) => q = Queue(c)
      BY <2>7 DEF IsIn, Exclusive
    <3> QED BY <3>1, <3>2
  <2> QED BY <2>2, <2>3, <2>4, <2>5, <2>6, <2>7 DEF Exclusive
<1> QED BY <1>1 DEF Conservation, Unrepeated

\* No frame object is ever lost, on two lists, or on a list and in the hands of
\* the main loop or of an endpoint, however the USB interrupt interleaves with
\* the main loop.
THEOREM ConservationCorrect == ~EagerHost => (Spec => []Conservation)
<1>1. IInv => Conservation
  BY ExclusiveIsConservation DEF IInv
<1> QED BY <1>1, IInvCorrect, PTL

\* The frame the host fetches is to_host_buf, which DataIn is going to free.
THEOREM InTransferOwnedCorrect == ~EagerHost => (Spec => []InTransferOwned)
<1>1. IInv => InTransferOwned
  BY DEF IInv, InTransferInv, InTransferOwned
<1> QED BY <1>1, IInvCorrect, PTL
=============================================================================
