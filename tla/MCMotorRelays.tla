--------------------------- MODULE MCMotorRelays ---------------------------
(***************************************************************************)
(* MotorRelays with the delays of the firmware scaled down.  The order     *)
(* BusyWait < MinDelay < StopDelay < StartDelay of 10, 100, 500 and        *)
(* 1000 ms is kept, up to MinDelay = BusyWait, and the clock is wide       *)
(* enough for every delay to pass once without a wrap.                     *)
(***************************************************************************)
EXTENDS MotorRelays

=============================================================================
