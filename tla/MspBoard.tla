-------------------------------- MODULE MspBoard --------------------------------
(***************************************************************************)
(* A boot of an MSPM0 board as far as its HAL shows: an update may be      *)
(* programmed (MspProgramming), and then the firmware is started or        *)
(* abort() blinks a reason (AbortSignal) and resets the device.  The panic *)
(* handler of the board aborts as well, in the middle of anything.         *)
(***************************************************************************)
EXTENDS MspProgramming, AbortSignal

VARIABLES
  led_fitted,  \* B::LED is not None
  reason,      \* why abort() was called, or NotAborting
  signal       \* what the LED showed since

board == <<vars, led_fitted, reason, signal>>

NotAborting == [kind |-> "none", code |-> 0]

\* HalErr::Panic.
Panic == [kind |-> "HalError", code |-> 0]

abort(r) ==
  /\ reason = NotAborting
  /\ reason' = r
  /\ signal' = IF led_fitted THEN signal_of(r) ELSE <<>>
  /\ UNCHANGED <<vars, led_fitted>>

\* check_firmware() fails; any other reason, of any code, is one a HAL gives.
firmware_invalid == session # "open" /\ \E r \in Reasons : abort(r)

panic == session = "open" /\ abort(Panic)

\* The blinking over, abort() resets the device, and the loader boots.
sys_reset ==
  /\ reason # NotAborting
  /\ reason' = NotAborting /\ signal' = <<>>
  /\ prog' = DefaultProg /\ session' = "idle" /\ given' = <<>>
  /\ UNCHANGED <<flash, programmed, led_fitted>>

working == reason = NotAborting /\ Next /\ UNCHANGED <<led_fitted, reason, signal>>

BoardInit == Init /\ led_fitted \in BOOLEAN /\ reason = NotAborting /\ signal = <<>>

BoardNext == working \/ firmware_invalid \/ panic \/ sys_reset

BoardSpec == BoardInit /\ [][BoardNext]_board

\* Who watches the LED for as long as it blinks knows why the device gave up, with
\* any error code; after a reset nothing of the signal is left to be misread.
ReasonIsReadable ==
  IF reason # NotAborting /\ led_fitted THEN tells(signal, reason) ELSE signal = <<>>
=============================================================================
