----------------------------- MODULE CanChannel -----------------------------
(***************************************************************************)
(* One CAN channel with either controller, bxCAN or M_CAN: what the USB    *)
(* interrupt does to it (can_enable, can_disable, the request to leave     *)
(* bus-off) and what the main loop does in CAN_HandleError (report state   *)
(* changes, leave bus-off), which runs without disabling interrupts.       *)
(*                                                                         *)
(* A main-loop step is what no interrupt can tear: one access to a field   *)
(* the interrupt writes too.  While an interrupt handler waits for the     *)
(* controller (spin), nothing else of the firmware runs.                   *)
(***************************************************************************)
EXTENDS Naturals

CONSTANT
  Drivers   \* the controllers of the boards, "bxcan" and "mcan"

ASSUME DriversAssumption == Drivers \subseteq {"bxcan", "mcan"}

\* enum gs_can_state; ERROR_PASSIVE is handled as ERROR_WARNING is.
Levels == {"active", "warning", "busoff"}
States == Levels \cup {"stopped"}

\* GS_CAN_FEATURE_BERR_REPORTING, GS_CAN_FEATURE_BUS_OFF_RECOVERY.
Features == [berr : BOOLEAN, recovers : BOOLEAN]
NoFeature == [berr |-> FALSE, recovers |-> FALSE]

VARIABLES
  driver,     \* the file of src/can the firmware is built with
  state,      \* channel->state
  feature,    \* channel->feature
  restart,    \* bus_off_restart: "off" (0), "wait" (in the future), "due"
  reg,        \* channel->reg_status
  powered,    \* board_phy_power_set
  suspended,  \* is_usb_suspend_cb
  spin,       \* can_enable waits for INAK in the interrupt handler
  pc,         \* the main loop in CAN_HandleError; "poll" is everything else
  told,       \* what the last error frame told the host; "missed" if the last
              \* change found the pool empty
  rough,      \* the host has started a channel that ran or had a recovery scheduled
  mode,       \* the controller: "init", "joining" (initialisation left, the bus
              \* not seen idle yet), "bus", "halted" (M_CAN: stopped by bus-off)
  err,        \* the controller's error state, ESR or PSR
  polled,     \* CAN_HandleError has read err since it changed
  caughtIn    \* history: the stage of CAN_HandleError in which can_enable or
              \* can_disable caught the main loop last

mainVars == <<pc, reg>>
hostVars == <<driver, feature, powered, suspended, spin, rough>>
hwVars   == <<mode, err>>
vars == <<state, restart, told, polled, mainVars, hostVars, hwVars, caughtIn>>

\* can_is_enabled.
Enabled == state # "stopped"

Init ==
  /\ driver \in Drivers
  /\ state = "stopped" /\ feature = NoFeature /\ restart = "off"
  /\ reg = "active" /\ powered = FALSE /\ suspended = FALSE /\ spin = FALSE
  /\ pc = "poll" /\ told = "active" /\ rough = FALSE
  /\ mode = "init" /\ err = "active" /\ polled = FALSE
  /\ caughtIn = "none"

-----------------------------------------------------------------------------
(* CAN_HandleError.  With a frame in the receive FIFO it returns at once.    *)

\* The main loop goes from step here to step there.
At(here, there) == ~spin /\ pc = here /\ pc' = there

\* can_drv_read_reg_status.
ReadStatus ==
  /\ At("poll", "enabled")
  /\ reg' = err /\ polled' = TRUE
  /\ UNCHANGED <<state, restart, told, hostVars, hwVars, caughtIn>>

\* Mutant: can_is_enabled is not tested.
TestEnabledNot ==
  /\ At("enabled", "compare")
  /\ UNCHANGED <<state, restart, told, polled, reg, hostVars, hwVars, caughtIn>>

\* can_state_change_pending: is the channel enabled?
TestEnabled ==
  /\ At("enabled", IF Enabled THEN "compare" ELSE "bus_error")
  /\ UNCHANGED <<state, restart, told, polled, reg, hostVars, hwVars, caughtIn>>

\* Mutant: only a change for the worse counts.
CompareWorse ==
  /\ At("compare", IF state = reg \/ reg = "active" THEN "bus_error" ELSE "write")
  /\ UNCHANGED <<state, restart, told, polled, reg, hostVars, hwVars, caughtIn>>

\* can_state_change_pending: does channel->state differ from the controller's?
Compare ==
  /\ At("compare", IF state = reg THEN "bus_error" ELSE "write")
  /\ UNCHANGED <<state, restart, told, polled, reg, hostVars, hwVars, caughtIn>>

\* can_state_change_pending: channel->state = new_state.
WriteState ==
  /\ At("write", "get")
  /\ state' = reg
  /\ UNCHANGED <<restart, told, polled, reg, hostVars, hwVars, caughtIn>>

\* can_handle_state_change: a frame of the pool ...
GetFrame ==
  /\ At("get", "test_bus_off")
  /\ UNCHANGED <<state, restart, told, polled, reg, hostVars, hwVars, caughtIn>>

\* ... or, if the pool is empty, nothing is done at all.
NoFrame ==
  /\ At("get", "poll")
  /\ told' = "missed"
  /\ UNCHANGED <<state, restart, polled, reg, hostVars, hwVars, caughtIn>>

\* can_handle_state_change: not bus-off, the error counters are reported.
ReportLevel ==
  /\ state # "busoff"
  /\ At("test_bus_off", "poll")
  /\ told' = reg
  /\ UNCHANGED <<state, restart, polled, reg, hostVars, hwVars, caughtIn>>

\* can_handle_state_change: bus-off.
TestBusOff ==
  /\ state = "busoff"
  /\ At("test_bus_off", "test_feature")
  /\ UNCHANGED <<state, restart, told, polled, reg, hostVars, hwVars, caughtIn>>

\* Mutant: nor is the host told.
LeaveToHostSilent ==
  /\ feature.recovers
  /\ At("test_feature", "poll")
  /\ UNCHANGED <<state, restart, told, polled, reg, hostVars, hwVars, caughtIn>>

\* can_handle_state_change: the host takes care of the recovery.
LeaveToHost ==
  /\ feature.recovers
  /\ At("test_feature", "poll")
  /\ told' = "busoff"
  /\ UNCHANGED <<state, restart, polled, reg, hostVars, hwVars, caughtIn>>

\* can_handle_state_change: it does not.
TakeCare ==
  /\ ~feature.recovers
  /\ At("test_feature", "arm")
  /\ UNCHANGED <<state, restart, told, polled, reg, hostVars, hwVars, caughtIn>>

\* Mutant: nothing is scheduled.
ArmNothing ==
  /\ At("arm", "poll")
  /\ told' = "busoff"
  /\ UNCHANGED <<state, restart, polled, reg, hostVars, hwVars, caughtIn>>

\* can_schedule_bus_off_recovery in CAN_BUS_OFF_RESTART_DELAY_MS.
Arm ==
  /\ At("arm", "poll")
  /\ restart' = "wait"
  /\ told' = "busoff"
  /\ UNCHANGED <<state, polled, reg, hostVars, hwVars, caughtIn>>

\* can_bus_error_pending and can_handle_bus_error.  A controller that is
\* bus-off takes no part in the traffic and records no error.
BusError ==
  /\ feature.berr /\ reg # "busoff"
  /\ At("bus_error", "poll")
  /\ UNCHANGED <<state, restart, told, polled, reg, hostVars, hwVars, caughtIn>>

NoBusError ==
  /\ At("bus_error", "pending")
  /\ UNCHANGED <<state, restart, told, polled, reg, hostVars, hwVars, caughtIn>>

\* can_bus_off_recovery_pending: the test of bus_off_restart for 0.
TestPending ==
  /\ At("pending", IF restart = "off" THEN "poll" ELSE "due")
  /\ UNCHANGED <<state, restart, told, polled, reg, hostVars, hwVars, caughtIn>>

\* can_bus_off_recovery_pending: time_after(now, bus_off_restart), read again; a
\* 0 written in between lies in the past.
TestDue ==
  /\ At("due", IF restart = "wait" THEN "poll" ELSE "leave")
  /\ UNCHANGED <<state, restart, told, polled, reg, hostVars, hwVars, caughtIn>>

\* can_drv_handle_bus_off_recovery: can_drv_disable, HAL_FDCAN_Stop.
LeaveBus ==
  /\ At("leave", "join")
  /\ mode' = "init"
  /\ UNCHANGED <<state, restart, told, polled, reg, hostVars, err, caughtIn>>


\* can_drv_handle_bus_off_recovery: can_drv_enable resets a bxCAN.
JoinBus ==
  /\ driver = "bxcan"
  /\ At("join", "wait")
  /\ mode' = "joining" /\ err' = "active"
  /\ UNCHANGED <<state, restart, told, polled, reg, hostVars, caughtIn>>

\* can_drv_handle_bus_off_recovery: HAL_FDCAN_Start starts an M_CAN that is
\* stopped.
StartBus ==
  /\ driver = "mcan"
  /\ At("join", "wait")
  /\ mode' = IF mode = "init" THEN "joining" ELSE mode
  /\ UNCHANGED <<state, restart, told, polled, reg, hostVars, err, caughtIn>>

\* can_drv_enable: bxCAN is waited for until it has seen the bus idle.
WaitForBus ==
  /\ driver = "bxcan" /\ mode = "bus"
  /\ At("wait", "clear")
  /\ UNCHANGED <<state, restart, told, polled, reg, hostVars, hwVars, caughtIn>>

\* m_can_synchronize_bus: M_CAN is waited for until it has, or the time is up;
\* each turn of the loop reads the registers.
SynchronizeBus ==
  /\ driver = "mcan"
  /\ At("wait", "clear")
  /\ reg' = err
  /\ UNCHANGED <<state, restart, told, polled, hostVars, hwVars, caughtIn>>

\* Mutant: the recovery is not marked as done.
ClearRestartNot ==
  /\ At("clear", "restarted")
  /\ UNCHANGED <<state, restart, told, polled, reg, hostVars, hwVars, caughtIn>>

\* can_handle_bus_off_recovery: bus_off_restart is reset.
ClearRestart ==
  /\ At("clear", "restarted")
  /\ restart' = "off"
  /\ UNCHANGED <<state, told, polled, reg, hostVars, hwVars, caughtIn>>

\* can_handle_bus_off_recovery: the host is told, if the pool has a frame.
ReportRestart ==
  /\ At("restarted", "poll")
  /\ told' \in {"restarted", "missed"}
  /\ UNCHANGED <<state, restart, polled, reg, hostVars, hwVars, caughtIn>>

-----------------------------------------------------------------------------
(* The USB interrupt. *)

\* The stages of CAN_HandleError that use what they have read before:
\* reg_status, in all but the last; channel->state, from its test to its
\* assignment ("change"), from there to the test for bus-off ("report") and
\* from there to can_schedule_bus_off_recovery ("schedule"); bus_off_restart,
\* until can_drv_enable ("recovery").
Stage(step) ==
  CASE step = "enabled"                       -> "snapshot"
    [] step \in {"compare", "write"}          -> "change"
    [] step \in {"get", "test_bus_off"}       -> "report"
    [] step \in {"test_feature", "arm"}       -> "schedule"
    [] step \in {"due", "leave", "join"}      -> "recovery"
    [] OTHER                                  -> "none"

\* It comes between any two steps of the main loop.
Interrupt == ~spin

\* can_drv_enable: a bxCAN is reset, an M_CAN keeps its error counters and, if it
\* was bus-off, has to see the bus idle 129 times first.
DriverEnable(f) ==
  /\ feature' = f
  /\ mode' = "joining"
  /\ err' = IF driver = "bxcan" THEN "active" ELSE err

\* GS_CAN_MODE_START: can_enable.  The host takes a channel it starts for error
\* active.  The bxCAN driver waits for the bus, in the interrupt handler.
ModeStart(f) ==
  /\ Interrupt /\ ~suspended
  /\ DriverEnable(f)
  /\ state' = "active" /\ told' = "active"
  /\ powered' = TRUE /\ rough' = (powered \/ restart # "off")
  /\ spin' = (driver = "bxcan")
  /\ caughtIn' = Stage(pc)
  /\ UNCHANGED <<driver, restart, polled, mainVars, suspended>>

\* The handler goes on when the controller has joined.
StartDone ==
  /\ spin /\ mode = "bus"
  /\ spin' = FALSE
  /\ UNCHANGED <<driver, state, restart, told, polled, mainVars, feature, powered,
                 suspended, rough, hwVars, caughtIn>>

\* Mutant: a scheduled recovery is not cancelled.
DisableNotRestart ==
  /\ mode' = "init" /\ powered' = FALSE
  /\ state' = "stopped" /\ feature' = NoFeature /\ rough' = FALSE
  /\ caughtIn' = Stage(pc)
  /\ UNCHANGED <<driver, restart>>

\* can_disable.
Disable ==
  /\ mode' = "init" /\ powered' = FALSE
  /\ restart' = "off"
  /\ state' = "stopped" /\ feature' = NoFeature /\ rough' = FALSE
  /\ caughtIn' = Stage(pc)
  /\ UNCHANGED driver

\* GS_CAN_MODE_RESET.
ModeReset ==
  /\ Interrupt /\ ~suspended
  /\ Disable
  /\ UNCHANGED <<told, polled, mainVars, suspended, spin, err>>

\* GS_USB_BREQ_BUS_OFF_RECOVERY: can_schedule_bus_off_recovery with delay 0, due
\* as soon as the tick goes on.
BusOffRecovery ==
  /\ Interrupt /\ ~suspended
  /\ state = "busoff" /\ feature.recovers
  /\ restart' = "wait"
  /\ UNCHANGED <<state, told, polled, mainVars, hostVars, hwVars, caughtIn>>

\* USBD_GS_CAN_SuspendCallback.
Suspend ==
  /\ Interrupt /\ ~suspended
  /\ Disable
  /\ suspended' = TRUE
  /\ UNCHANGED <<told, polled, mainVars, spin, err>>

\* USBD_GS_CAN_ResumeCallback.
Resume ==
  /\ Interrupt /\ suspended
  /\ suspended' = FALSE
  /\ UNCHANGED <<driver, state, restart, told, polled, mainVars, feature, powered,
                 spin, rough, hwVars, caughtIn>>

-----------------------------------------------------------------------------
(* The tick and the controller. *)

\* The time of the scheduled recovery comes.
Tick ==
  /\ restart = "wait"
  /\ restart' = "due"
  /\ UNCHANGED <<state, told, polled, mainVars, hostVars, hwVars, caughtIn>>

\* The controller has seen the bus idle: 11 recessive bits (INAK is cleared, ACT
\* leaves SYNC), or, for an M_CAN that was bus-off, 129 times as many, which ends
\* bus-off.
HwJoin ==
  /\ mode = "joining"
  /\ mode' = "bus"
  /\ err' = IF err = "busoff" THEN "active" ELSE err
  /\ UNCHANGED <<state, restart, told, polled, mainVars, hostVars, caughtIn>>

\* The error counters cross a threshold.  From error active to bus-off takes 32
\* failed transmissions, milliseconds; the main loop comes round in microseconds
\* and sees every level.  ABOM is 0 and M_CAN sets INIT: bus-off lasts until the
\* software ends it.
HwError ==
  /\ mode = "bus" /\ polled
  /\ \/ err = "active" /\ err' = "warning" /\ UNCHANGED mode
     \/ err = "warning" /\ err' = "active" /\ UNCHANGED mode
     \/ /\ err = "warning" /\ err' = "busoff"
        /\ mode' = IF driver = "mcan" THEN "halted" ELSE mode
  /\ polled' = FALSE
  /\ UNCHANGED <<state, restart, told, mainVars, hostVars, caughtIn>>

-----------------------------------------------------------------------------
HandleError ==
  \/ ReadStatus \/ TestEnabled \/ Compare \/ WriteState
  \/ GetFrame \/ NoFrame \/ ReportLevel \/ TestBusOff \/ LeaveToHost \/ TakeCare \/ Arm
  \/ BusError \/ NoBusError
  \/ TestPending \/ TestDue \/ LeaveBus \/ JoinBus \/ StartBus
  \/ WaitForBus \/ SynchronizeBus
  \/ ClearRestart \/ ReportRestart

Host ==
  \/ \E f \in Features : ModeStart(f)
  \/ StartDone \/ ModeReset \/ BusOffRecovery \/ Suspend \/ Resume

Next == HandleError \/ Host \/ Tick \/ HwJoin \/ HwError

Spec == Init /\ [][Next]_vars

\* The main loop comes round however often the host interrupts it, the receive
\* FIFO is found empty and no bus error pending again and again.  The tick goes on.
\* The bus is idle for long enough at times, and the host does not start the
\* channel again each time before it has joined: a bus held dominant keeps the
\* firmware in can_drv_enable of bxcan.c.
Fairness ==
  /\ SF_vars(HandleError) /\ SF_vars(NoBusError)
  /\ WF_vars(StartDone) /\ WF_vars(Tick) /\ SF_vars(HwJoin)

FairSpec == Spec /\ Fairness

-----------------------------------------------------------------------------
(* Properties. *)

Steps == {"poll", "enabled", "compare", "write", "get", "test_bus_off",
          "test_feature", "arm", "bus_error", "pending", "due", "leave", "join",
          "wait", "clear", "restarted"}

Stages == {"none", "snapshot", "change", "report", "schedule", "recovery"}

\* Every variable has its type; a handler that waits for the controller to join
\* the bus has taken it out of initialisation, and only the bxCAN driver waits.
TypeOK ==
  /\ driver \in Drivers
  /\ state \in States /\ feature \in Features
  /\ restart \in {"off", "wait", "due"} /\ reg \in Levels
  /\ powered \in BOOLEAN /\ suspended \in BOOLEAN /\ spin \in BOOLEAN
  /\ pc \in Steps /\ told \in Levels \cup {"restarted", "missed"}
  /\ rough \in BOOLEAN
  /\ mode \in {"init", "joining", "bus", "halted"} /\ err \in Levels
  /\ polled \in BOOLEAN /\ caughtIn \in Stages
  /\ spin => powered /\ mode # "init" /\ driver = "bxcan"
  /\ mode = "halted" => driver = "mcan"

(* The inductive invariant behind the safety properties.                      *)

\* A disabled channel is off in every respect, and CAN_HandleError passes it by,
\* unless can_disable caught it in the stage that brings back channel->state, the
\* recovery, or the controller.
Disabled ==
  ~powered =>
    /\ caughtIn # "change" => state = "stopped" /\ pc \notin {"compare", "write"}
    /\ caughtIn \notin {"change", "schedule"} =>
         restart = "off" /\ pc \notin {"test_feature", "arm"}
    /\ caughtIn \notin {"change", "schedule", "recovery"} =>
         mode = "init" /\ pc \notin {"due", "leave", "join"}

\* CAN_HandleError reports the state it has just written.
Reporting ==
  Enabled /\ caughtIn \notin {"report", "schedule"} =>
    /\ pc \in {"get", "test_bus_off"} => state = reg
    /\ pc \in {"test_feature", "arm"} => state = "busoff"

\* A bxCAN that joins the bus was reset.
ResetJoins == driver = "bxcan" /\ mode = "joining" => err = "active"

\* bxCAN, unless the start caught CAN_HandleError with an older bus-off: the one it
\* acts upon is still there, and so is the one the device has scheduled a recovery
\* for.
BusOffLasts ==
  /\ driver = "bxcan" /\ powered /\ ~rough
  /\ caughtIn \notin {"snapshot", "change", "schedule"}
  => /\ pc \in {"enabled", "compare", "write"} /\ reg = "busoff" => err = "busoff"
     /\ pc \in {"get", "test_bus_off"} /\ state = "busoff" => err = "busoff"
     /\ pc \in {"test_feature", "arm"} => err = "busoff"
     /\ restart # "off" /\ ~feature.recovers => err = "busoff" \/ pc \in {"wait", "clear"}

\* The host of a running channel knows channel->state, is about to be told, was
\* told of a restart, or the pool was empty, unless the start caught
\* CAN_HandleError with an older report.
Telling ==
  Enabled /\ caughtIn \notin {"report", "schedule"} =>
    \/ told \in {state, "restarted", "missed"}
    \/ pc \in {"get", "test_bus_off", "test_feature", "arm"}

ChannelInv ==
  /\ TypeOK /\ (powered => Enabled)
  /\ Disabled /\ Reporting /\ ResetJoins /\ BusOffLasts /\ Telling

\* A channel without transceiver power, because it was never started, was reset
\* or the USB is suspended, takes no part in the bus.  Excepted is a can_disable
\* that catches the main loop between a test and what it does in consequence:
\* CAN_HandleError has no lock, and goes on to can_drv_enable (run suspend_race).
OffBus ==
  ~powered /\ caughtIn \notin {"change", "schedule", "recovery"} => mode = "init"

\* "Disable CAN and go off bus on USB suspend" (usbd_gs_can.c:1034).
SuspendedOffBus == suspended => mode = "init"

\* A recovery is scheduled only for a running channel, and one the device
\* scheduled by itself for a bxCAN only while the controller is bus-off: it would
\* throw a healthy channel off the bus.  Excepted are a stop or start that catches
\* CAN_HandleError about to schedule one, and where a healthy channel is thrown off
\* for other reasons: a host that takes care of the recovery (its request is
\* accepted until the main loop has seen the controller recovered); a start that
\* finds a recovery scheduled (can_enable does not cancel it); M_CAN, where the
\* bus-off before a start is taken for a new one.
RestartAtBusOff ==
  restart # "off" /\ pc = "poll" /\ caughtIn \notin {"change", "schedule"} =>
    /\ powered
    /\ driver = "bxcan" /\ ~rough /\ ~feature.recovers /\ caughtIn # "snapshot" =>
         err = "busoff"

\* A reset channel is off until the host starts it.  Excepted is a reset between the
\* test of channel->state and its assignment: the assignment comes last.
StaysStopped ==
  [][state = "stopped" /\ state' # "stopped" /\ caughtIn # "change"
       => powered' /\ ~powered]_vars

\* Between two polls the host knows the state of a running channel, or has been
\* told that it was restarted, unless the pool was empty at the last change.
\* Excepted is a reset and start that catches CAN_HandleError between writing
\* channel->state and reporting it: the old state is reported for the new channel.
Informed ==
  pc = "poll" /\ Enabled /\ caughtIn \notin {"report", "schedule"} =>
    told \in {state, "restarted", "missed"}

\* A channel that is bus-off and whose host does not take care of the recovery
\* is back on the bus at some time, unless it is stopped or the change was missed.
Recovers ==
  err = "busoff" /\ powered /\ ~feature.recovers ~>
    err # "busoff" \/ ~powered \/ told = "missed"

\* The same whether or not the pool has a frame: "host is not taking care of CAN
\* bus of recovery" (can_common.c:439), so the device does.
RecoversAlways ==
  err = "busoff" /\ powered /\ ~feature.recovers ~> err # "busoff" \/ ~powered

\* What GET_STATE answers (the last register snapshot) comes to agree with
\* channel->state, which the reports to the host follow, and with the controller
\* while the channel runs: neither a start nor a wait for the bus leaves the host
\* with two answers.
AnswerSettles ==
  /\ Enabled /\ reg # state ~> reg = state \/ ~Enabled
  /\ Enabled /\ reg # err ~> reg = err \/ ~Enabled

=============================================================================
