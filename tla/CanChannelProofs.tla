-------------------------- MODULE CanChannelProofs --------------------------
(***************************************************************************)
(* The safety properties of a channel (CanChannel) with the requests of    *)
(* the host coming between any two steps of CAN_HandleError: proved for    *)
(* both controllers, for every behaviour of the bus and for hosts that     *)
(* start running channels, whether or not the pool runs empty.             *)
(***************************************************************************)
EXTENDS CanChannel, TLAPS

\* The initial state satisfies the inductive invariant.
LEMMA InitChannelInv == Init => ChannelInv
<1>1. NoFeature \in Features
  BY DEF NoFeature, Features
<1>2. ASSUME Init PROVE TypeOK
  BY <1>1, <1>2 DEF Init, TypeOK, States, Levels, Steps, Stages
<1>3. ASSUME Init
      PROVE  /\ Disabled /\ Reporting /\ ResetJoins /\ BusOffLasts /\ Telling
             /\ powered => Enabled
  BY <1>3 DEF Init, Disabled, Reporting, ResetJoins, BusOffLasts, Telling, Enabled
<1> QED BY <1>2, <1>3 DEF ChannelInv

\* CAN_HandleError keeps it.
LEMMA HandleErrorStep ==
  ASSUME ChannelInv, HandleError
  PROVE  ChannelInv'
<1> USE DEF ChannelInv, TypeOK, Disabled, Reporting, ResetJoins, BusOffLasts, Telling,
            Enabled, States, Levels, Steps, Stages,
            At, mainVars, hostVars, hwVars
<1>1. CASE ReadStatus
  BY <1>1 DEF ReadStatus
<1>2. CASE TestEnabled \/ Compare \/ WriteState
  BY <1>2 DEF TestEnabled, Compare, WriteState
<1>3. CASE GetFrame \/ NoFrame \/ ReportLevel \/ TestBusOff
  BY <1>3 DEF GetFrame, NoFrame, ReportLevel, TestBusOff
<1>4. CASE LeaveToHost \/ TakeCare \/ Arm
  BY <1>4 DEF LeaveToHost, TakeCare, Arm
<1>5. CASE BusError \/ NoBusError \/ TestPending \/ TestDue
  BY <1>5 DEF BusError, NoBusError, TestPending, TestDue
<1>6. CASE LeaveBus \/ JoinBus \/ StartBus \/ WaitForBus \/ SynchronizeBus
  BY <1>6 DEF LeaveBus, JoinBus, StartBus, WaitForBus, SynchronizeBus
<1>7. CASE ClearRestart \/ ReportRestart
  BY <1>7 DEF ClearRestart, ReportRestart
<1> QED BY <1>1, <1>2, <1>3, <1>4, <1>5, <1>6, <1>7 DEF HandleError

\* A request of the host keeps it.
LEMMA HostStep ==
  ASSUME ChannelInv, Host
  PROVE  ChannelInv'
<1> USE DEF ChannelInv, TypeOK, Disabled, Reporting, ResetJoins, BusOffLasts, Telling,
            Enabled, States, Levels, Steps, Stages,
            Interrupt, mainVars, hostVars, hwVars
<1>1. NoFeature \in Features
  BY DEF NoFeature, Features
<1>8. /\ Stage(pc) \in Stages
      /\ pc = "enabled" <=> Stage(pc) = "snapshot"
      /\ pc \in {"compare", "write"} <=> Stage(pc) = "change"
      /\ pc \in {"get", "test_bus_off"} <=> Stage(pc) = "report"
      /\ pc \in {"test_feature", "arm"} <=> Stage(pc) = "schedule"
      /\ pc \in {"due", "leave", "join"} <=> Stage(pc) = "recovery"
  BY DEF Stage
<1>2. ASSUME NEW f \in Features, ModeStart(f) PROVE ChannelInv'
  <2>1. spin' = (driver = "bxcan") /\ rough' = (powered \/ restart # "off")
    BY <1>2 DEF ModeStart
  <2>2. spin' \in BOOLEAN /\ rough' \in BOOLEAN
    BY <2>1
  <2>3. /\ powered' = TRUE /\ state' = "active" /\ told' = "active" /\ mode' = "joining"
        /\ feature' = f /\ err' = (IF driver = "bxcan" THEN "active" ELSE err)
        /\ caughtIn' = Stage(pc)
        /\ UNCHANGED <<driver, restart, polled, pc, reg, suspended>>
    BY <1>2 DEF ModeStart, DriverEnable
  <2> HIDE DEF ChannelInv
  <2>4. TypeOK'
    BY <1>8, <2>1, <2>2, <2>3 DEF ChannelInv
  <2>5. (powered => Enabled)' /\ Disabled' /\ ResetJoins'
    BY <2>3 DEF ChannelInv
  <2>6. Reporting' /\ Telling'
    BY <1>8, <2>3
  <2>7. BusOffLasts'
    BY <1>8, <2>1, <2>3 DEF ChannelInv
  <2> QED BY <2>4, <2>5, <2>6, <2>7 DEF ChannelInv
<1>3. CASE StartDone
  <2>1. spin' = FALSE /\ spin' \in BOOLEAN
    BY <1>3 DEF StartDone
  <2> QED BY <1>3, <2>1 DEF StartDone
<1>4. CASE ModeReset
  <2>1. powered' \in BOOLEAN /\ rough' \in BOOLEAN /\ suspended' \in BOOLEAN
    BY <1>4 DEF ModeReset, Disable
  <2> QED BY <1>1, <1>4, <1>8, <2>1 DEF ModeReset, Disable
<1>5. CASE BusOffRecovery
  BY <1>5 DEF BusOffRecovery
<1>6. CASE Suspend
  <2>1. powered' \in BOOLEAN /\ rough' \in BOOLEAN /\ suspended' \in BOOLEAN
    BY <1>6 DEF Suspend, Disable
  <2> QED BY <1>1, <1>6, <1>8, <2>1 DEF Suspend, Disable
<1>7. CASE Resume
  <2>1. suspended' = FALSE /\ suspended' \in BOOLEAN
    BY <1>7 DEF Resume
  <2> QED BY <1>7, <2>1 DEF Resume
<1> QED BY <1>2, <1>3, <1>4, <1>5, <1>6, <1>7 DEF Host

\* The tick and the controller keep it.
LEMMA HardwareStep ==
  ASSUME ChannelInv, Tick \/ HwJoin \/ HwError
  PROVE  ChannelInv'
<1> USE DEF ChannelInv, TypeOK, Disabled, Reporting, ResetJoins, BusOffLasts, Telling,
            Enabled, States, Levels, Steps, Stages,
            mainVars, hostVars, hwVars
<1>1. CASE Tick
  BY <1>1 DEF Tick
<1>2. CASE HwJoin
  BY <1>2 DEF HwJoin
<1>3. CASE HwError
  <2>1. polled' = FALSE /\ polled' \in BOOLEAN
    BY <1>3 DEF HwError
  <2> QED BY <1>3, <2>1 DEF HwError
<1> QED BY <1>1, <1>2, <1>3

\* The inductive invariant holds in every reachable state.
LEMMA ChannelInvCorrect == Spec => []ChannelInv
<1>1. ChannelInv /\ [Next]_vars => ChannelInv'
  <2> SUFFICES ASSUME ChannelInv, [Next]_vars PROVE ChannelInv'
    OBVIOUS
  <2>1. CASE Next
    BY <2>1, HandleErrorStep, HostStep, HardwareStep DEF Next
  <2>2. CASE UNCHANGED vars
    BY <2>2 DEF vars, mainVars, hostVars, hwVars, ChannelInv, TypeOK, Disabled,
       Reporting, ResetJoins, BusOffLasts, Telling, Enabled
  <2> QED BY <2>1, <2>2
<1> QED BY <1>1, InitChannelInv, PTL DEF Spec

\* Every variable has its type in every reachable state.
THEOREM ChannelTypeCorrect == Spec => []TypeOK
<1>1. ChannelInv => TypeOK
  BY DEF ChannelInv
<1> QED BY <1>1, ChannelInvCorrect, PTL

\* A channel that was never started, was reset or is suspended takes no part in the
\* bus, unless can_disable caught CAN_HandleError in a stage that ends in
\* can_drv_enable.
THEOREM OffBusCorrect == Spec => []OffBus
<1>1. ChannelInv => OffBus
  BY DEF ChannelInv, Disabled, OffBus
<1> QED BY <1>1, ChannelInvCorrect, PTL

\* A recovery is scheduled only for a running channel, and by the device itself for
\* a bxCAN only while the controller is bus-off, unless can_enable or can_disable
\* caught CAN_HandleError between reading that bus-off and acting upon it.
THEOREM RestartAtBusOffCorrect == Spec => []RestartAtBusOff
<1>1. ChannelInv => RestartAtBusOff
  BY DEF ChannelInv, Disabled, BusOffLasts, Enabled, RestartAtBusOff, TypeOK
<1> QED BY <1>1, ChannelInvCorrect, PTL

\* A stopped channel stays stopped until the host starts it, unless can_disable
\* caught CAN_HandleError between the test of channel->state and its assignment.
THEOREM StaysStoppedCorrect == Spec => StaysStopped
<1> DEFINE Kept == state = "stopped" /\ state' # "stopped" /\ caughtIn # "change"
                    => powered' /\ ~powered
<1>1. ChannelInv /\ [Next]_vars => [Kept]_vars
  <2> SUFFICES ASSUME ChannelInv, Next, caughtIn # "change",
                      state = "stopped", state' # "stopped"
               PROVE  powered' /\ ~powered
    OBVIOUS
  <2>1. ~powered /\ pc # "write"
    BY DEF ChannelInv, Disabled, Enabled
  <2>2. PICK f \in Features : ModeStart(f)
    BY <2>1 DEF Next, HandleError, ReadStatus, TestEnabled, Compare, WriteState, GetFrame,
       NoFrame, ReportLevel, TestBusOff, LeaveToHost, TakeCare, Arm, BusError, NoBusError,
       TestPending, TestDue, LeaveBus, JoinBus, StartBus, WaitForBus, SynchronizeBus,
       ClearRestart, ReportRestart, At, Host, StartDone, ModeReset, BusOffRecovery,
       Suspend, Resume, Disable, Tick, HwJoin, HwError
  <2> QED BY <2>1, <2>2 DEF ModeStart
<1> QED BY <1>1, ChannelInvCorrect, PTL DEF Spec, StaysStopped

\* Between two polls the host knows the state of a running channel, was told of a
\* restart, or the pool was empty at the last change, unless can_enable caught
\* CAN_HandleError with an older state still to be reported.
THEOREM InformedCorrect == Spec => []Informed
<1>1. ChannelInv => Informed
  BY DEF ChannelInv, Telling, Informed
<1> QED BY <1>1, ChannelInvCorrect, PTL

\* The inductive invariant itself: a disabled channel is passed by, reports are of
\* the state just written, the bus-off acted upon is still there, each but for the
\* stages of CAN_HandleError that use what they read before the interrupt.
THEOREM ChannelInvariant == Spec => []ChannelInv
BY ChannelInvCorrect
=============================================================================
