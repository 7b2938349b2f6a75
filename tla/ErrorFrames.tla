---------------------------- MODULE ErrorFrames ----------------------------
(***************************************************************************)
(* The contents of the error frames that CAN_HandleError sends to the      *)
(* host, from the register snapshot of either driver.                      *)
(***************************************************************************)
EXTENDS Naturals, FiniteSetsExt

\* enum gs_can_state, in its order.
ERROR_ACTIVE == 0
ERROR_WARNING == 1
ERROR_PASSIVE == 2
BUS_OFF == 3

\* Counters of the controller, around the thresholds; the REC field of M_CAN has
\* 7 bits.
Tecs == {0, 1, 95, 96, 127, 128, 255, 256}
Recs == {0, 1, 95, 96, 127, 128}
Errors == {"none", "stuff", "form", "ack", "bit1", "bit0", "crc", "software"}

\* reg_status: the counter fields, the state flags and the last error codes of
\* one instant (dlec: M_CAN only).
Snapshot(driver, tec, rec, lec, dlec) ==
  [driver |-> driver, tec |-> tec % 256,
   rec    |-> IF driver = "mcan" THEN Min({rec, 127}) ELSE rec,
   ewg    |-> tec >= 96 \/ rec >= 96,
   epv    |-> tec >= 128 \/ rec >= 128,
   boff   |-> tec >= 256,
   lec    |-> lec, dlec |-> IF driver = "mcan" THEN dlec ELSE "none"]

Snapshots == {Snapshot(d, t, r, l, dl) :
               d \in {"bxcan", "mcan"}, t \in Tecs, r \in Recs, l \in Errors, dl \in {"none", "bit0"}}

-----------------------------------------------------------------------------

\* can_drv_get_state.
State(s) == IF s.boff THEN BUS_OFF ELSE IF s.epv THEN ERROR_PASSIVE
            ELSE IF s.ewg THEN ERROR_WARNING ELSE ERROR_ACTIVE

\* CAN_ERROR_WARNING_THRESHOLD, CAN_ERROR_PASSIVE_THRESHOLD, CAN_BUS_OFF_THRESHOLD.
Thresholds == {96, 128, 256}

\* Mutant: the thresholds themselves belong below.
ErrToStateAbove(err) == Cardinality({t \in Thresholds : err > t})

\* can_err_to_state.
ErrToState(err) == Cardinality({t \in Thresholds : err >= t})

\* gs_can_tx_state_to_frame, gs_can_rx_state_to_frame.
TxFlag == [state \in ERROR_ACTIVE..BUS_OFF |->
  CASE state = ERROR_ACTIVE  -> {"active"}
    [] state = ERROR_WARNING -> {"tx_warning"}
    [] state = ERROR_PASSIVE -> {"tx_passive"}
    [] OTHER                 -> {}]
RxFlag == [state \in ERROR_ACTIVE..BUS_OFF |->
  CASE state = ERROR_ACTIVE  -> {"active"}
    [] state = ERROR_WARNING -> {"rx_warning"}
    [] state = ERROR_PASSIVE -> {"rx_passive"}
    [] OTHER                 -> {}]

\* can_prepare_error_frame: can_id, data[1], data[2..3], data[6..7].
Prepared == [id |-> {"err"}, ctrl |-> {}, prot |-> {}, counters |-> <<0, 0>>]

\* can_is_lec_error, can_lec_error_to_frame.
IsLecError(lec) == lec \notin {"none", "software"}
Location(lec) == IF lec = "ack" \/ ~IsLecError(lec) THEN {} ELSE {lec}

\* can_drv_handle_bus_error; a frame it does not handle stays as it is.
Handled(s) == s.tec # 0 \/ s.rec # 0
WithBusError(s, frame) ==
  IF ~Handled(s) THEN frame
  ELSE [frame EXCEPT !.id = @ \cup {"prot", "buserror", "cnt"} \cup (IF "ack" \in {s.lec, s.dlec} THEN {"ack"} ELSE {}),
                     !.prot = Location(s.lec) \cup Location(s.dlec),
                     !.counters = <<s.tec, s.rec>>]

\* can_drv_handle_state_change.
WithLevel(s, frame) ==
  LET tx == ErrToState(s.tec)
      rx == ErrToState(s.rec)
  IN  [frame EXCEPT !.ctrl = (IF tx >= rx THEN TxFlag[tx] ELSE {}) \cup (IF tx <= rx THEN RxFlag[rx] ELSE {})]

\* can_handle_state_change.
StateFrame(s) ==
  IF State(s) = BUS_OFF
  THEN [Prepared EXCEPT !.id = @ \cup {"busoff"}]
  ELSE WithBusError(s, WithLevel(s, [Prepared EXCEPT !.id = @ \cup {"crtl", "cnt"}]))

\* can_bus_error_pending, can_handle_bus_error.
BusErrorPending(s) == IsLecError(s.lec) \/ IsLecError(s.dlec)
BusErrorFrame(s) == WithBusError(s, Prepared)

-----------------------------------------------------------------------------
(* Properties. *)

\* The flags that name a state.
Levels == [state \in {ERROR_ACTIVE, ERROR_WARNING, ERROR_PASSIVE} |-> TxFlag[state] \cup RxFlag[state]]

\* What the 7 bits of M_CAN cannot show: a receiver that alone is error passive.
Hidden(s) == s.driver = "mcan" /\ State(s) = ERROR_PASSIVE /\ s.tec < 128

\* The frame for a change of state names that state, as GET_STATE does, and the
\* counters; the frame for a bus error names the error.
Agrees(s) ==
  /\ State(s) # BUS_OFF /\ ~Hidden(s) =>
       /\ StateFrame(s).ctrl # {} /\ StateFrame(s).ctrl \subseteq Levels[State(s)]
       /\ "cnt" \in StateFrame(s).id /\ StateFrame(s).counters = <<s.tec, s.rec>>
  /\ State(s) = BUS_OFF <=> "busoff" \in StateFrame(s).id
  /\ BusErrorPending(s) /\ Handled(s) =>
       "buserror" \in BusErrorFrame(s).id /\ (BusErrorFrame(s).prot # {} \/ "ack" \in BusErrorFrame(s).id)
=============================================================================
