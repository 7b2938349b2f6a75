-------------------------------- MODULE Leds --------------------------------
(***************************************************************************)
(* The RX LED of a channel: the modes, the blinking on traffic and the     *)
(* IDENTIFY sequence of led.c.  led_update is called by the main loop for  *)
(* every channel and, inside led_set_mode and led_run_sequence, by the     *)
(* USB interrupt; all calls share one next_update.                         *)
(*                                                                         *)
(* The unit of time is LED_UPDATE_INTERVAL, in which the main loop comes   *)
(* round at least once.  The TX LED of the channel is handled by the same  *)
(* calls.                                                                  *)
(***************************************************************************)
EXTENDS Ticks

CONSTANTS OffTime, OnTime, StepTime   \* 30, 45 and 100 ms in the code; less than Half

VARIABLES
  now,                  \* HAL_GetTick
  nextUpdate,           \* next_update
  mode, step, tNext,    \* leds: mode, sequence_step, t_sequence_next
  blink,                \* led_state[LED_RX].blink_request
  offUntil, onUntil,    \* led_state[LED_RX]
  lit,                  \* what was last written to the pin
  pc, loaded,           \* led_update in the main loop; ++sequence_step
  since,                \* history: time since the last blink began, up to Half
  fresh                 \* history: at this tick mode NORMAL has written the pin, last

vars == <<now, nextUpdate, mode, step, tNext, blink, offUntil, onUntil, lit, pc, loaded, since, fresh>>
loopVars == <<pc, loaded>>
sequenceVars == <<step, tNext>>
blinkVars == <<blink, offUntil, onUntil, since>>

\* led_identify_seq: on, off, the end of the sequence.
Identify == [s \in 0..2 |-> [on |-> s = 0, time |-> IF s = 2 THEN 0 ELSE StepTime]]
EndOfSequence == 2

Init ==
  /\ now = 0 /\ nextUpdate = 0
  /\ mode = "off" /\ step = 0 /\ tNext = 0
  /\ blink = FALSE /\ offUntil = 0 /\ onUntil = 0
  /\ lit = FALSE /\ pc = "idle" /\ loaded = 0
  /\ since = OnTime /\ fresh = FALSE

-----------------------------------------------------------------------------
\* led_update, mode OFF.
Darken == lit' = FALSE /\ fresh' = FALSE /\ UNCHANGED blinkVars

\* led_update_normal_mode, led_trx_blinker.
UpdateNormal ==
  LET begins == blink /\ Passed(now, onUntil) /\ Passed(now, offUntil)
  IN  /\ blink' = FALSE
      /\ IF begins
         THEN offUntil' = Plus(now, OffTime) /\ onUntil' = Plus(now, OnTime) /\ since' = 0
         ELSE UNCHANGED <<offUntil, onUntil, since>>
      /\ lit' = Passed(now, offUntil') /\ fresh' = TRUE

\* led_set_sequence_step.
SetStep(s) ==
  /\ step' = s
  /\ tNext' = Plus(now, Identify[s].time)
  /\ lit' = Identify[s].on /\ fresh' = FALSE

-----------------------------------------------------------------------------
(* The main loop. *)

\* main -> led_update: the slot is taken.
Update ==
  /\ pc = "idle" /\ Passed(now, nextUpdate)
  /\ nextUpdate' = Plus(now, 1) /\ pc' = "switch"
  /\ UNCHANGED <<now, mode, sequenceVars, blinkVars, lit, loaded, fresh>>

\* led_update for another channel takes it.
UpdateOther ==
  /\ pc = "idle" /\ Passed(now, nextUpdate)
  /\ nextUpdate' = Plus(now, 1)
  /\ UNCHANGED <<now, mode, sequenceVars, blinkVars, lit, loopVars, fresh>>

SwitchOff ==
  /\ pc = "switch" /\ mode = "off"
  /\ Darken /\ pc' = "idle"
  /\ UNCHANGED <<now, nextUpdate, mode, sequenceVars, loaded>>

SwitchNormal ==
  /\ pc = "switch" /\ mode = "normal"
  /\ UpdateNormal /\ pc' = "idle"
  /\ UNCHANGED <<now, nextUpdate, mode, sequenceVars, loaded>>

\* led_update_sequence.
SwitchSequence ==
  /\ pc = "switch" /\ mode = "sequence"
  /\ pc' = IF Passed(now, tNext) THEN "load" ELSE "idle"
  /\ UNCHANGED <<now, nextUpdate, mode, sequenceVars, blinkVars, lit, loaded, fresh>>

\* led_update_sequence: sequence_step is read ...
LoadStep ==
  /\ pc = "load"
  /\ loaded' = step + 1 /\ pc' = "store"
  /\ UNCHANGED <<now, nextUpdate, mode, sequenceVars, blinkVars, lit, fresh>>

\* ... and written, incremented.
StoreStep ==
  /\ pc = "store"
  /\ SetStep(loaded) /\ pc' = "end"
  /\ UNCHANGED <<now, nextUpdate, mode, blinkVars, loaded>>

\* Mutant: the sequence does not begin again.
EndStepOnly ==
  /\ pc = "end" /\ pc' = "idle"
  /\ tNext' = Plus(now, Identify[loaded].time) /\ loaded' = 0
  /\ UNCHANGED <<now, nextUpdate, mode, step, blinkVars, lit, fresh>>

\* led_update_sequence: led_identify_seq is repeated for ever (-1).
EndStep ==
  /\ pc = "end" /\ pc' = "idle"
  /\ IF loaded = EndOfSequence
     THEN SetStep(0)
     ELSE /\ tNext' = Plus(now, Identify[loaded].time)
          /\ UNCHANGED <<step, lit, fresh>>
  /\ loaded' = 0
  /\ UNCHANGED <<now, nextUpdate, mode, blinkVars>>

\* led_indicate_trx, in CAN_ReceiveFrame.
Indicate ==
  /\ pc = "idle" /\ ~blink
  /\ blink' = TRUE
  /\ UNCHANGED <<now, nextUpdate, mode, sequenceVars, offUntil, onUntil, since, lit, loopVars, fresh>>

-----------------------------------------------------------------------------
(* The USB interrupt. *)

\* led_set_mode in can_enable ("normal"), can_disable ("off") and IDENTIFY; the
\* led_update in it does nothing if the slot is taken.
SetMode(m) ==
  /\ mode' = m
  /\ IF Passed(now, nextUpdate)
     THEN /\ nextUpdate' = Plus(now, 1)
          /\ IF m = "off" THEN Darken ELSE UpdateNormal
     ELSE UNCHANGED <<nextUpdate, blinkVars, lit, fresh>>
  /\ UNCHANGED <<now, sequenceVars, loopVars>>

\* led_run_sequence: IDENTIFY.
RunSequence ==
  /\ mode' = "sequence"
  /\ SetStep(0)
  /\ nextUpdate' = IF Passed(now, nextUpdate) THEN Plus(now, 1) ELSE nextUpdate
  /\ UNCHANGED <<now, blinkVars, loopVars>>

Interrupt == SetMode("off") \/ SetMode("normal") \/ RunSequence

\* SysTick, once the main loop has come round.
Tick ==
  /\ pc = "idle" /\ ~Passed(now, nextUpdate)
  /\ now' = Plus(now, 1)
  /\ since' = IF since < Half THEN since + 1 ELSE since
  /\ fresh' = FALSE
  /\ UNCHANGED <<nextUpdate, mode, sequenceVars, blink, offUntil, onUntil, lit, loopVars>>

Next ==
  \/ Update \/ UpdateOther
  \/ SwitchOff \/ SwitchNormal \/ SwitchSequence
  \/ LoadStep \/ StoreStep \/ EndStep
  \/ Indicate \/ Interrupt \/ Tick

Spec == Init /\ [][Next]_vars

-----------------------------------------------------------------------------
(* Properties. *)

\* The main loop indexes the sequence with a step of it, though IDENTIFY may set
\* sequence_step back between any two of its accesses.
StepInSequence ==
  /\ pc = "store" => loaded <= EndOfSequence
  /\ pc = "idle" => step < EndOfSequence

\* In mode NORMAL the LED is dark for OffTime after a blink begins and lit
\* otherwise, wherever the clock wraps around and whatever modes and sequences
\* come in between, as long as the last blink is not Half ago.
DarkInBlink == fresh /\ since < Half => (lit <=> since >= OffTime)
=============================================================================
