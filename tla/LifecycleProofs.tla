-------------------------- MODULE LifecycleProofs --------------------------
(***************************************************************************)
(* HostFrames implements FrameLifecycle: whatever the main loop and the    *)
(* USB interrupt do, every frame moves along the arrows of its life cycle, *)
(* for every number of frames, channels and receive buffers.               *)
(***************************************************************************)
EXTENDS HostFramesProofs

USE ConstantsAssumption

\* What a step may do to frame f, owner by owner.
Lawful(f) ==
  /\ f \in pool => f \in pool' \/ f \in Range(rxBuf') \/ f = held'
  /\ f \in Range(rxBuf) =>
       f \in Range(rxBuf') \/ \E c \in Chans : f \in Range(fromHost'[c])
  /\ \A c \in Chans : f \in Range(fromHost[c]) =>
       f \in Range(fromHost'[c]) \/ f \in pool' \/ (f = held' /\ ch' = c)
  /\ f = held =>
       \/ f = held' /\ ch' = ch
       \/ f \in Range(fromHost'[ch]) \/ f \in Range(toHost') \/ f \in pool'
  /\ f \in Range(toHost) => f \in Range(toHost') \/ f = toHostBuf' \/ f \in pool'
  /\ f = toHostBuf => f = toHostBuf' \/ f \in pool'

-----------------------------------------------------------------------------
(* The place of a frame. *)

\* Every frame has a place, and PlaceOf is it.
Placed ==
  /\ PlaceOf \in [Frames -> Places]
  /\ \A f \in Frames : IsIn(f, PlaceOf[f])
  /\ \A f \in Frames : \A p \in Places : IsIn(f, p) => PlaceOf[f] = p

\* Conservation makes PlaceOf well defined: where a frame is by IsIn, there
\* PlaceOf has it.
LEMMA PlaceIs == Conservation /\ ch \in Chans => Placed
<1> SUFFICES ASSUME Conservation, ch \in Chans, NEW f \in Frames
    PROVE  /\ PlaceOf[f] \in Places /\ IsIn(f, PlaceOf[f])
           /\ \A p \in Places : IsIn(f, p) => PlaceOf[f] = p
  BY DEF PlaceOf, Placed
<1>1. PICK p \in Places : IsIn(f, p) /\ \A q \in Places : IsIn(f, q) => q = p
  BY DEF Conservation
<1>2. /\ f \in pool => p = Pool
      /\ f \in Range(rxBuf) => p = RxPlace
      /\ f \in Range(toHost) => p = Outbox
      /\ f = toHostBuf => p = TxPlace
      /\ f = held => p = Work(ch)
      /\ \A c \in Chans : f \in Range(fromHost[c]) => p = Queue(c)
  <2>1. /\ Pool \in Places /\ RxPlace \in Places /\ Outbox \in Places /\ TxPlace \in Places
        /\ Work(ch) \in Places /\ \A c \in Chans : Queue(c) \in Places
    BY DEF Places
  <2> QED BY <1>1, <2>1 DEF IsIn
<1>3. /\ Pool # RxPlace /\ Pool # Outbox /\ Pool # TxPlace /\ Pool # Work(ch)
      /\ RxPlace # Outbox /\ RxPlace # TxPlace /\ RxPlace # Work(ch)
      /\ Outbox # TxPlace /\ Outbox # Work(ch) /\ TxPlace # Work(ch)
      /\ \A c \in Chans : /\ Queue(c) # Pool /\ Queue(c) # RxPlace /\ Queue(c) # Outbox
                          /\ Queue(c) # TxPlace /\ Queue(c) # Work(ch)
                          /\ \A d \in Chans : Queue(c) = Queue(d) => c = d
  BY DEF Pool, RxPlace, Outbox, TxPlace, Work, Queue
<1> HIDE DEF Pool, RxPlace, Outbox, TxPlace, Work, Queue
<1>4. \/ f \in pool \/ f \in Range(rxBuf) \/ f \in Range(toHost) \/ f = toHostBuf
      \/ f = held \/ \E c \in Chans : f \in Range(fromHost[c])
  BY <1>1 DEF IsIn
<1>5. PlaceOf[f] = p
  <2>1. CASE f \in pool
    BY <1>2, <1>3, <2>1 DEF PlaceOf
  <2>2. CASE f \in Range(rxBuf)
    BY <1>2, <1>3, <2>2 DEF PlaceOf
  <2>3. CASE f \in Range(toHost)
    BY <1>2, <1>3, <2>3 DEF PlaceOf
  <2>4. CASE f = toHostBuf
    BY <1>2, <1>3, <2>4 DEF PlaceOf
  <2>5. CASE f = held
    BY <1>2, <1>3, <2>5 DEF PlaceOf
  <2>6. CASE \E c \in Chans : f \in Range(fromHost[c])
    <3> DEFINE d == CHOOSE c \in Chans : f \in Range(fromHost[c])
    <3>1. d \in Chans /\ f \in Range(fromHost[d])
      BY <2>6
    <3>2. p = Queue(d)
      BY <1>2, <3>1
    <3> QED BY <1>2, <1>3, <2>6, <3>1, <3>2 DEF PlaceOf
  <2> QED BY <1>4, <2>1, <2>2, <2>3, <2>4, <2>5, <2>6
<1> QED BY <1>1, <1>5

\* One frame is in tx, one in work, and RxBufs in rx.
LEMMA PlacesCapacity ==
  TypeOK /\ Conservation => Lifecycle!Capacity
<1> SUFFICES ASSUME TypeOK, Conservation PROVE Lifecycle!Capacity
  OBVIOUS
<1>0. Placed
  BY PlaceIs DEF TypeOK
<1> USE DEF Lifecycle!InPlace
<1>1. Cardinality(Lifecycle!InPlace(Lifecycle!Tx)) <= 1
  <2>1. Lifecycle!InPlace(Lifecycle!Tx) \subseteq {toHostBuf}
    BY <1>0 DEF Placed, Lifecycle!Tx, IsIn, Pool, RxPlace, Outbox, TxPlace, Queue, Work
  <2>2. IsFiniteSet({toHostBuf}) /\ Cardinality({toHostBuf}) = 1
    BY FS_Singleton
  <2> QED BY <2>1, <2>2, FS_Subset
<1>2. Cardinality(UNION {Lifecycle!InPlace(Lifecycle!Work(c)) : c \in Chans}) <= 1
  <2>1. UNION {Lifecycle!InPlace(Lifecycle!Work(c)) : c \in Chans} \subseteq {held}
    BY <1>0 DEF Placed, Lifecycle!Work, IsIn, Pool, RxPlace, Outbox, TxPlace, Queue, Work
  <2>2. IsFiniteSet({held}) /\ Cardinality({held}) = 1
    BY FS_Singleton
  <2> QED BY <2>1, <2>2, FS_Subset
<1>3. Cardinality(Lifecycle!InPlace(Lifecycle!Rx)) <= RxBufs
  <2>1. Lifecycle!InPlace(Lifecycle!Rx) \subseteq Range(rxBuf)
    BY <1>0 DEF Placed, Lifecycle!Rx, IsIn, Pool, RxPlace, Outbox, TxPlace, Queue, Work
  <2>2. rxBuf \in Seq(Frames) /\ Len(rxBuf) <= RxBufs /\ Len(rxBuf) \in Nat /\ RxBufs \in Nat
    BY LenProperties DEF TypeOK
  <2>3. rxBuf \in Surjection(1 .. Len(rxBuf), Range(rxBuf))
    BY <2>2 DEF Surjection, Range
  <2>4. IsFiniteSet(1 .. Len(rxBuf)) /\ Cardinality(1 .. Len(rxBuf)) = Len(rxBuf)
    <3>1. 1 \in Int /\ Len(rxBuf) \in Int
      BY <2>2
    <3>2. /\ IsFiniteSet(1 .. Len(rxBuf))
          /\ Cardinality(1 .. Len(rxBuf)) = IF 1 > Len(rxBuf) THEN 0 ELSE Len(rxBuf) - 1 + 1
      BY <3>1, FS_Interval
    <3> HIDE ConstantsAssumption
    <3>3. (IF 1 > Len(rxBuf) THEN 0 ELSE Len(rxBuf) - 1 + 1) = Len(rxBuf)
      BY <2>2
    <3> QED BY <3>2, <3>3
  <2>5. IsFiniteSet(Range(rxBuf)) /\ Cardinality(Range(rxBuf)) <= Len(rxBuf)
    BY <2>3, <2>4, FS_Surjection
  <2>6. Cardinality(Lifecycle!InPlace(Lifecycle!Rx)) <= Cardinality(Range(rxBuf))
    BY <2>1, <2>5, FS_Subset
  <2>7. /\ Cardinality(Lifecycle!InPlace(Lifecycle!Rx)) \in Nat
        /\ Cardinality(Range(rxBuf)) \in Nat
    BY <2>1, <2>5, FS_Subset, FS_CardinalityType
  <2> QED BY <2>2, <2>5, <2>6, <2>7
<1>4. \A S : Lifecycle!Cardinality(S) = Cardinality(S)
  BY Zenon DEF Cardinality, Lifecycle!Cardinality
<1> QED BY <1>1, <1>2, <1>3, <1>4 DEF Lifecycle!Capacity

\* The place of a frame by its owner.
Owned ==
  \A f \in Frames :
    /\ f \in pool => PlaceOf[f] = Pool
    /\ f \in Range(rxBuf) => PlaceOf[f] = RxPlace
    /\ \A c \in Chans : f \in Range(fromHost[c]) => PlaceOf[f] = Queue(c)
    /\ f = held => PlaceOf[f] = Work(ch)
    /\ f \in Range(toHost) => PlaceOf[f] = Outbox
    /\ f = toHostBuf => PlaceOf[f] = TxPlace

\* It follows.
LEMMA OwnerIsPlace == TypeOK /\ Placed => Owned
<1> SUFFICES ASSUME TypeOK, Placed, NEW f \in Frames PROVE Owned!(f)
  BY DEF Owned
<1>1. /\ Pool \in Places /\ RxPlace \in Places /\ Outbox \in Places /\ TxPlace \in Places
      /\ Work(ch) \in Places /\ \A c \in Chans : Queue(c) \in Places
  BY DEF Places, TypeOK
<1>2. \A p \in Places : IsIn(f, p) => PlaceOf[f] = p
  BY DEF Placed
<1> QED BY <1>1, <1>2 DEF IsIn

\* All of it, of a reachable state.
LEMMA IInvPlaces == IInv => TypeOK /\ Exclusive /\ Placed /\ Owned /\ Lifecycle!Capacity
<1> SUFFICES ASSUME IInv PROVE Placed /\ Owned /\ Lifecycle!Capacity
  BY DEF IInv
<1>1. TypeOK /\ Conservation
  BY ExclusiveIsConservation DEF IInv
<1>2. Placed
  BY <1>1, PlaceIs DEF TypeOK
<1> QED BY <1>1, <1>2, OwnerIsPlace, PlacesCapacity

\* What is lawful owner by owner goes along the arrows.
LEMMA LawfulMoves ==
  ASSUME Exclusive, Owned, Owned', ch \in Chans, ch' \in Chans,
         NEW f \in Frames, Lawful(f)
  PROVE  PlaceOf'[f] = PlaceOf[f] \/ <<PlaceOf[f], PlaceOf'[f]>> \in Lifecycle!Arrows
<1> DEFINE from == PlaceOf[f]
           to   == PlaceOf'[f]
<1>1. /\ f \in pool => from = Pool
      /\ f \in Range(rxBuf) => from = RxPlace
      /\ \A c \in Chans : f \in Range(fromHost[c]) => from = Queue(c)
      /\ f = held => from = Work(ch)
      /\ f \in Range(toHost) => from = Outbox
      /\ f = toHostBuf => from = TxPlace
  BY DEF Owned
<1>2. /\ f \in pool' => to = Pool
      /\ f \in Range(rxBuf') => to = RxPlace
      /\ \A c \in Chans : f \in Range(fromHost'[c]) => to = Queue(c)
      /\ f = held' => to = Work(ch')
      /\ f \in Range(toHost') => to = Outbox
      /\ f = toHostBuf' => to = TxPlace
  BY DEF Owned
<1> HIDE DEF from, to
<1>3. \/ f \in pool \/ f \in Range(rxBuf) \/ f \in Range(toHost)
      \/ f = toHostBuf \/ f = held \/ \E c \in Chans : f \in Range(fromHost[c])
  BY DEF Exclusive
<1> DEFINE A == Lifecycle!Arrows
<1>4. /\ <<Pool, RxPlace>> \in A /\ <<Outbox, TxPlace>> \in A
      /\ <<TxPlace, Pool>> \in A /\ <<Outbox, Pool>> \in A
      /\ \A c \in Chans :
           /\ <<RxPlace, Queue(c)>> \in A /\ <<Queue(c), Work(c)>> \in A
           /\ <<Work(c), Queue(c)>> \in A /\ <<Work(c), Outbox>> \in A
           /\ <<Work(c), Pool>> \in A /\ <<Pool, Work(c)>> \in A
           /\ <<Queue(c), Pool>> \in A
  BY DEF Lifecycle!Arrows, Lifecycle!Pool, Lifecycle!Rx, Lifecycle!Outbox, Lifecycle!Tx,
     Lifecycle!Queue, Lifecycle!Work, Pool, RxPlace, Outbox, TxPlace, Queue, Work
<1> HIDE DEF A
<1> SUFFICES to = from \/ <<from, to>> \in A
  BY DEF from, to, A
<1>5. CASE f \in pool
  BY <1>1, <1>2, <1>4, <1>5 DEF Lawful
<1>6. CASE f \in Range(rxBuf)
  BY <1>1, <1>2, <1>4, <1>6 DEF Lawful
<1>7. CASE f \in Range(toHost)
  BY <1>1, <1>2, <1>4, <1>7 DEF Lawful
<1>8. CASE f = toHostBuf
  BY <1>1, <1>2, <1>4, <1>8 DEF Lawful
<1>9. CASE f = held
  BY <1>1, <1>2, <1>4, <1>9 DEF Lawful
<1>10. ASSUME NEW c \in Chans, f \in Range(fromHost[c]) PROVE to = from \/ <<from, to>> \in A
  BY <1>1, <1>2, <1>4, <1>10 DEF Lawful
<1> QED BY <1>3, <1>5, <1>6, <1>7, <1>8, <1>9, <1>10

-----------------------------------------------------------------------------
(* Every step is lawful. *)

\* A step of the main loop.
LEMMA MainLawful ==
  ASSUME IInv, Main, NEW f \in Frames
  PROVE  Lawful(f)
<1> USE DEF frameVars, mainVars, inVars, outVars, devVars
<1> TypeOK /\ HeldInHand /\ Exclusive /\ Unrepeated
  BY DEF IInv
<1>1. ASSUME UNCHANGED frameVars, held = NULL \/ ch' = ch PROVE Lawful(f)
  BY <1>1 DEF Lawful
<1>2. CASE Boot \/ SendIdle \/ ToHostIdle \/ ToHostArg \/ ToHostXmit \/ ReceiveIdle \/ ErrorIdle
  BY <1>1, <1>2 DEF Boot, SendIdle, ToHostIdle, ToHostArg, ToHostXmit, ReceiveIdle,
     ErrorIdle, HeldInHand
<1>3. CASE SendTake
  <2>1. fromHost[ch] \in Seq(Frames) /\ fromHost[ch] # <<>> /\ IsInjective(fromHost[ch])
        /\ held = NULL
    BY <1>3 DEF SendTake, TypeOK, Unrepeated, HeldInHand
  <2>2. Range(Tail(fromHost[ch])) = Range(fromHost[ch]) \ {Head(fromHost[ch])}
    BY <2>1, TailRange
  <2>3. \A c \in Chans : fromHost'[c] = IF c = ch THEN Tail(fromHost[ch]) ELSE fromHost[c]
    BY <1>3 DEF SendTake, TypeOK
  <2>4. held' = Head(fromHost[ch]) /\ ch' = ch
        /\ UNCHANGED <<pool, toHost, rxBuf, toHostBuf>>
    BY <1>3 DEF SendTake
  <2> QED BY <2>1, <2>2, <2>3, <2>4 DEF Lawful
<1>4. CASE SendEcho
  <2>1. held \in Frames /\ toHost' = Append(toHost, held)
        /\ UNCHANGED <<pool, fromHost, rxBuf, toHostBuf>>
    BY <1>4 DEF SendEcho, TypeOK, HeldInHand
  <2>2. Range(toHost') = Range(toHost) \cup {held}
    BY <2>1, AppendRange DEF TypeOK
  <2> QED BY <2>1, <2>2 DEF Lawful, Exclusive
<1>5. CASE SendRetry
  <2>1. held \in Frames /\ fromHost[ch] \in Seq(Frames) /\ ch \in Chans
        /\ fromHost' = [fromHost EXCEPT ![ch] = <<held>> \o @]
        /\ UNCHANGED <<pool, toHost, rxBuf, toHostBuf>>
    BY <1>5 DEF SendRetry, TypeOK, HeldInHand
  <2>2. Range(<<held>> \o fromHost[ch]) = {held} \cup Range(fromHost[ch])
    BY <2>1, ConsRange
  <2>3. \A c \in Chans : fromHost'[c] = IF c = ch THEN <<held>> \o fromHost[ch] ELSE fromHost[c]
    BY <2>1 DEF TypeOK
  <2> QED BY <2>1, <2>2, <2>3 DEF Lawful, Exclusive
<1>6. CASE ReceiveFromHost
  <2>1. rxBuf \in Seq(Frames) /\ Len(rxBuf) <= RxBufs /\ pool \subseteq Frames
    BY DEF TypeOK
  <2>2. Prefill(rxBuf) /\ ch' = ch /\ UNCHANGED <<toHost, fromHost, toHostBuf, held>>
    BY <1>6 DEF ReceiveFromHost
  <2>3. PICK t \in Seq(Frames) :
          pool' = pool \ Range(t) /\ Range(rxBuf') = Range(rxBuf) \cup Range(t)
    BY <2>1, <2>2, PrefillFacts
  <2> QED BY <2>2, <2>3 DEF Lawful
<1>7. CASE ToHostTake
  <2>1. toHost \in Seq(Frames) /\ toHost # <<>> /\ IsInjective(toHost) /\ toHostBuf = NULL
    BY <1>7 DEF ToHostTake, TypeOK, Unrepeated
  <2>2. Range(Tail(toHost)) = Range(toHost) \ {Head(toHost)}
    BY <2>1, TailRange
  <2>3. toHostBuf' = Head(toHost) /\ toHost' = Tail(toHost) /\ ch' = ch
        /\ UNCHANGED <<pool, fromHost, rxBuf, held>>
    BY <1>7 DEF ToHostTake
  <2> QED BY <2>1, <2>2, <2>3 DEF Lawful
<1>8. CASE ToHostDrop
  BY <1>8 DEF ToHostDrop, Lawful
<1>9. CASE ReceiveGet \/ ErrorGet
  <2>1. held = NULL /\ ch' = ch /\ UNCHANGED <<toHost, fromHost, rxBuf, toHostBuf>>
        /\ \E g \in pool : held' = g /\ pool' = pool \ {g}
    BY <1>9 DEF ReceiveGet, ErrorGet, GetFrame, HeldInHand
  <2> QED BY <2>1 DEF Lawful
<1>10. ASSUME NEW ok \in BOOLEAN, ReceivePut(ok) \/ ErrorPut(ok) PROVE Lawful(f)
  <2>1. held \in Frames /\ UNCHANGED <<fromHost, rxBuf, toHostBuf>>
    BY <1>10 DEF ReceivePut, ErrorPut, TypeOK, HeldInHand
  <2>2. CASE toHost' = Append(toHost, held) /\ pool' = pool
    <3>1. Range(toHost') = Range(toHost) \cup {held}
      BY <2>1, <2>2, AppendRange DEF TypeOK
    <3> QED BY <2>1, <2>2, <3>1 DEF Lawful, Exclusive
  <2>3. CASE toHost' = toHost /\ pool' = pool \cup {held}
    BY <2>1, <2>3 DEF Lawful, Exclusive
  <2> QED BY <1>10, <2>2, <2>3 DEF ReceivePut, ErrorPut
<1> QED BY <1>2, <1>3, <1>4, <1>5, <1>6, <1>7, <1>8, <1>9, <1>10 DEF Main

\* A step of the USB interrupt.
LEMMA InterruptLawful ==
  ASSUME IInv, Interrupt, NEW f \in Frames
  PROVE  Lawful(f)
<1> USE DEF frameVars, mainVars, inVars, outVars, devVars
<1> TypeOK /\ InTransferInv /\ Unrepeated
  BY DEF IInv
<1>1. ASSUME UNCHANGED <<pool, toHost, fromHost, rxBuf, toHostBuf, held, ch>>
      PROVE  Lawful(f)
  BY <1>1 DEF Lawful
<1>2. CASE HostSends \/ DataOutInvalid \/ DataOutAssert \/ SetConfig \/ Resume
  BY <1>1, <1>2 DEF HostSends, DataOutInvalid, DataOutAssert, SetConfig, Resume
<1>3. ASSUME NEW c \in Chans, ModeStart(c) PROVE Lawful(f)
  BY <1>1, <1>3 DEF ModeStart
<1>4. ASSUME NEW c \in Chans, DataOut(c) PROVE Lawful(f)
  <2> DEFINE first == Head(rxBuf)
             rest  == Tail(rxBuf)
  <2>1. /\ rxBuf \in Seq(Frames) /\ rxBuf # <<>> /\ IsInjective(rxBuf)
        /\ pool \subseteq Frames /\ Len(rxBuf) <= RxBufs /\ Len(rxBuf) \in Nat
        /\ RxBufs \in Nat
    BY <1>4, LenProperties DEF DataOut, TypeOK, Unrepeated
  <2>2. /\ first \in Frames /\ rest \in Seq(Frames) /\ Len(rest) = Len(rxBuf) - 1
        /\ Range(rest) = Range(rxBuf) \ {first}
    BY <2>1, TailRange
  <2>3. Len(rest) <= RxBufs
    BY <2>1, <2>2
  <2>4. PICK to \in Chans : fromHost' = [fromHost EXCEPT ![to] = Append(@, first)]
    <3>1. [g \in Frames |-> IF g = xferOut THEN c ELSE chan[g]][first] \in Chans
      BY <2>2 DEF TypeOK
    <3> QED BY <1>4, <3>1 DEF DataOut
  <2>5. Prefill(rest) /\ UNCHANGED <<toHost, toHostBuf, held, ch>>
    BY <1>4 DEF DataOut
  <2> HIDE DEF first, rest
  <2>6. PICK t \in Seq(Frames) :
          pool' = pool \ Range(t) /\ Range(rxBuf') = Range(rest) \cup Range(t)
    BY <2>1, <2>2, <2>3, <2>5, PrefillFacts
  <2>7. fromHost[to] \in Seq(Frames)
    BY DEF TypeOK
  <2>8. Range(Append(fromHost[to], first)) = Range(fromHost[to]) \cup {first}
    BY <2>2, <2>7, AppendRange
  <2>9. \A d \in Chans :
          fromHost'[d] = IF d = to THEN Append(fromHost[to], first) ELSE fromHost[d]
    BY <2>4 DEF TypeOK
  <2>10. /\ first \in Range(fromHost'[to])
         /\ \A d \in Chans : Range(fromHost[d]) \subseteq Range(fromHost'[d])
    BY <2>8, <2>9
  <2> QED BY <2>2, <2>5, <2>6, <2>10 DEF Lawful
<1>5. CASE DataIn
  BY <1>5 DEF DataIn, Lawful
<1>6. CASE Unconfigure
  BY <1>6 DEF Unconfigure, DeInit, Lawful
<1>7. CASE Suspend
  <2>1. /\ pool' = pool \cup Range(toHost) \cup UNION {Range(fromHost[c]) : c \in Chans}
        /\ UNCHANGED <<rxBuf, toHostBuf, held, ch>>
    BY <1>7 DEF Suspend
  <2>2. \A g : g \in pool' <=>
          g \in pool \/ g \in Range(toHost) \/ \E c \in Chans : g \in Range(fromHost[c])
    BY <2>1
  <2> QED BY <2>1, <2>2 DEF Lawful
<1>8. ASSUME NEW c \in Chans, ModeReset(c) PROVE Lawful(f)
  <2> DEFINE purged == {g \in Range(toHost) : chan[g] = c}
             kept == Range(toHost) \ purged
  <2>1. toHost' \in InOrder(toHost, kept) /\ kept \subseteq Range(toHost)
    BY <1>8 DEF ModeReset
  <2>2. Range(toHost') = kept
    BY <2>1, InOrderFacts DEF TypeOK
  <2>3. /\ pool' = pool \cup Range(fromHost[c]) \cup purged
        /\ fromHost' = [fromHost EXCEPT ![c] = <<>>]
        /\ UNCHANGED <<rxBuf, toHostBuf, held, ch>>
    BY <1>8 DEF ModeReset
  <2> HIDE DEF purged
  <2>4. \A d \in Chans : d # c => fromHost'[d] = fromHost[d]
    BY <2>3 DEF TypeOK
  <2> QED BY <2>2, <2>3, <2>4 DEF Lawful
<1> QED BY <1>2, <1>3, <1>4, <1>5, <1>6, <1>7, <1>8 DEF Interrupt

-----------------------------------------------------------------------------
(* The refinement. *)

\* The initial state: every frame is in the pool.
LEMMA InitPlaces == Init => Lifecycle!Init
<1> SUFFICES ASSUME Init PROVE Lifecycle!Init
  OBVIOUS
<1>1. Owned
  BY InitIInv, IInvPlaces
<1>2. \A f \in Frames : PlaceOf[f] = Pool
  BY <1>1 DEF Init, Owned
<1> QED BY <1>2 DEF Lifecycle!Init, Lifecycle!Pool, Pool, PlaceOf

\* Every step moves frames along arrows.
LEMMA StepMoves ==
  ASSUME IInv, IInv', [Next]_vars
  PROVE  [Lifecycle!Move]_PlaceOf
<1>1. TypeOK /\ Exclusive /\ Placed /\ Owned
  BY IInvPlaces
<1>2. TypeOK' /\ Placed' /\ Owned' /\ Lifecycle!Capacity'
  BY IInvPlaces, PTL
<1>3. ASSUME NEW f \in Frames PROVE Lawful(f)
  <2>1. CASE UNCHANGED vars
    BY <2>1 DEF Lawful, vars, frameVars, mainVars
  <2> QED BY <2>1, MainLawful, InterruptLawful DEF Next
<1>4. ch \in Chans /\ ch' \in Chans
  BY <1>1, <1>2 DEF TypeOK
<1>5. \A f \in Frames :
        PlaceOf'[f] = PlaceOf[f] \/ <<PlaceOf[f], PlaceOf'[f]>> \in Lifecycle!Arrows
  BY <1>1, <1>2, <1>3, <1>4, LawfulMoves
<1>6. PlaceOf' \in [Frames -> Lifecycle!Places]
  BY <1>2 DEF Placed, Places, Pool, RxPlace, Outbox, TxPlace, Queue, Work,
     Lifecycle!Places, Lifecycle!Pool, Lifecycle!Rx, Lifecycle!Outbox, Lifecycle!Tx,
     Lifecycle!Queue, Lifecycle!Work
<1> QED BY <1>2, <1>5, <1>6 DEF Lifecycle!Move

\* Every behaviour of the firmware is one the life cycle allows: whatever is
\* interrupted, reset, suspended or purged, no frame takes another way than the
\* one from its owner to the next.
THEOREM LifecycleCorrect == ~EagerHost => (Spec => ImplementsLifecycle)
<1> SUFFICES ASSUME ~EagerHost PROVE Spec => ImplementsLifecycle
  OBVIOUS
<1>1. Spec => []IInv
  BY IInvCorrect
<1>2. IInv /\ IInv' /\ [Next]_vars => [Lifecycle!Move]_PlaceOf
  BY StepMoves
<1> QED BY <1>1, <1>2, InitPlaces, PTL DEF Spec, ImplementsLifecycle, Lifecycle!Spec
=============================================================================
