-------------------------------- MODULE Dfu --------------------------------
(***************************************************************************)
(* From the DETACH request to the boot loader: the flag the main loop      *)
(* polls, the magic word that survives the reset, and the reset itself,    *)
(* which may also come from outside at any time.                           *)
(***************************************************************************)
CONSTANT Devices   \* subset of BOOLEAN: does HAL_GetDEVID find a boot loader?

VARIABLES
  known,    \* this device has a known boot loader address
  phase,    \* "reset", "startup" (_start), "wakeup", "loop" (main), "marked"
            \* (in dfu_run_bootloader), "bootloader"
  magic,    \* dfu_reset_to_bootloader_magic is the magic code
  detach,   \* dfu_detach_requested
  asked     \* history: a DETACH that the boot loader has not answered yet

vars == <<known, phase, magic, detach, asked>>

\* Power-on: the magic word is anything but the magic code.
Init ==
  /\ known \in Devices
  /\ phase = "reset" /\ magic = FALSE /\ detach = FALSE /\ asked = FALSE

\* Mutant: the magic word is left to the boot loader.
JumpUnconsumed ==
  /\ phase = "reset" /\ magic /\ known
  /\ phase' = "bootloader"
  /\ UNCHANGED <<known, magic, detach, asked>>

\* __initialize_hardware_early with the magic code: dfu_jump_to_bootloader.
Jump ==
  /\ phase = "reset" /\ magic /\ known
  /\ phase' = "bootloader" /\ magic' = FALSE
  /\ UNCHANGED <<known, detach, asked>>

\* __initialize_hardware_early otherwise: SystemInit.
StartUp ==
  /\ phase = "reset" /\ ~(magic /\ known)
  /\ phase' = "startup"
  /\ UNCHANGED <<known, magic, detach, asked>>

\* _start clears .bss and calls main, which starts the USB device.
ClearBss ==
  /\ phase = "startup"
  /\ phase' = "wakeup" /\ magic' = FALSE /\ detach' = FALSE
  /\ UNCHANGED <<known, asked>>

\* The wake-up pattern ends.
EnterLoop ==
  /\ phase = "wakeup"
  /\ phase' = "loop"
  /\ UNCHANGED <<known, magic, detach, asked>>

\* The host's DETACH, in the USB interrupt.
Detach ==
  /\ phase \in {"wakeup", "loop", "marked"}
  /\ detach' = TRUE /\ asked' = TRUE
  /\ UNCHANGED <<known, phase, magic>>

\* Mutant: the reset without the magic word.
RunBootloaderUnmarked ==
  /\ phase = "loop" /\ detach
  /\ phase' = "marked"
  /\ UNCHANGED <<known, magic, detach, asked>>

\* The main loop finds the request: dfu_run_bootloader writes the magic code ...
RunBootloader ==
  /\ phase = "loop" /\ detach
  /\ phase' = "marked" /\ magic' = TRUE
  /\ UNCHANGED <<known, detach, asked>>

\* ... and resets the device.
SystemReset ==
  /\ phase = "marked"
  /\ phase' = "reset"
  /\ UNCHANGED <<known, magic, detach, asked>>

\* A reset from outside, or by the boot loader when it is done.  RAM is kept; a
\* request that is not in it is forgotten, one that is answered is done with.
Reset ==
  /\ phase # "reset"
  /\ phase' = "reset"
  /\ asked' = (asked /\ magic /\ phase # "bootloader")
  /\ UNCHANGED <<known, magic, detach>>

\* What the device does by itself.
Device == Jump \/ StartUp \/ ClearBss \/ EnterLoop \/ RunBootloader \/ SystemReset

Next == Device \/ Detach \/ Reset

Spec == Init /\ [][Next]_vars

\* The core runs.
FairSpec == Spec /\ WF_vars(Device)

-----------------------------------------------------------------------------
(* Properties. *)

\* "Prevent a cyclic jump back to bootloader after a firmware upgrade"
\* (dfu.c:57): the boot loader runs only for a request that it has not answered,
\* whatever resets come in between.
BootLoaderAsked == phase = "bootloader" => asked /\ known

\* A request leads to the boot loader of a known device, unless a reset comes
\* before the magic word is written.
DetachBoots == known /\ asked ~> phase = "bootloader" \/ ~asked
=============================================================================
