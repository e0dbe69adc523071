------------------------------ MODULE MCTimedRelay ------------------------------
(* Channels for TLC.                                                           *)
EXTENDS TimedRelay

CONSTANTS c1, c2
================================================================================
